---- MODULE Spec2Model ----
(***************************************************************************)
(* Model of the LLM proxy of Howdy-Hack-25:                                *)
(*   backend/llm_backend/openrouter_client.py  (client variant, with the   *)
(*       action normalizer _ensure_json_content /                          *)
(*       _validate_computer_action)                                        *)
(*   backend/llm_backend/server.py             (FastAPI variant)           *)
(*                                                                         *)
(* and of the drivers around it:                                           *)
(*   frontend/test_agent.py, frontend/test_basic.py  (HowdyTestAgent, its  *)
(*       prompt parser, stagehand_method and the two main functions)       *)
(*   backend/stagehand_runner.py               (run_test)                  *)
(*                                                                         *)
(* Python values are tagged records; a text is a sequence of segments, so  *)
(* that json.loads, str.strip and the regex search are computed on it.     *)
(***************************************************************************)
EXTENDS Integers, Sequences, FiniteSets, TLC

VARIABLES content, out, out2, npc,
          pc, variant, upstream, result, served,
          env, client, server, request, callerMessages, sent,
          driver, dpc, source, typed, prompt, agent_response,
          test_scenarios, idx, results, agent, sessions, cycle, exit_code

vars == <<content, out, out2, npc, pc, variant, upstream, result, served,
          env, client, server, request, callerMessages, sent,
          driver, dpc, source, typed, prompt, agent_response,
          test_scenarios, idx, results, agent, sessions, cycle, exit_code>>

\* the state of the frontend drivers and of stagehand_runner.py
frontVars == <<driver, dpc, source, typed, prompt, agent_response,
               test_scenarios, idx, results, agent, sessions, cycle, exit_code>>

normVars == <<content, out, out2, npc>>
bootVars == <<env, client, server>>
callVars == <<request, callerMessages, sent>>
proxyVars == <<pc, variant, upstream, result, served, env, client, server,
               request, callerMessages, sent>>

(***************************************************************************)
(* Python / JSON values.                                                   *)
(***************************************************************************)
JNull == [t |-> "null"]
JBool(b) == [t |-> "bool", b |-> b]
JInt(n) == [t |-> "int", n |-> n]
\* a finite float, held in tenths: JFloat(25) is 2.5
JFloat(x) == [t |-> "float", x |-> x]
\* float('inf'), which json.loads reads from the literal Infinity
JInf == [t |-> "inf"]
JStr(s) == [t |-> "str", s |-> s]
\* a str whose characters are a sequence of text segments (see Text below)
JText(x) == [t |-> "text", x |-> x]
JList(l) == [t |-> "list", l |-> l]
JObj(o) == [t |-> "obj", o |-> o]
EmptyObj == JObj(<<>>)

\* an exception leaving a function
Raise(e) == [t |-> "raise", exc |-> e]
IsRaise(v) == v.t = "raise"

\* bool(v)
Truthy(v) ==
    CASE v.t = "null" -> FALSE
      [] v.t = "bool" -> v.b
      [] v.t = "int" -> v.n # 0
      [] v.t = "float" -> v.x # 0
      [] v.t = "inf" -> TRUE
      [] v.t = "str" -> v.s # ""
      [] v.t = "text" -> Len(v.x) > 0
      [] v.t = "list" -> Len(v.l) > 0
      [] v.t = "obj" -> DOMAIN v.o # {}

\* a or b, where either operand may already have raised
PyOr(a, b) == IF IsRaise(a) THEN a ELSE IF Truthy(a) THEN a ELSE b

\* dict.get(k) and dict.get(k, d) on the dict o
Get(o, k) == IF k \in DOMAIN o THEN o[k] ELSE JNull
GetD(o, k, d) == IF k \in DOMAIN o THEN o[k] ELSE d

(***************************************************************************)
(* Strings of the model and the two string conversions the code applies.   *)
(***************************************************************************)
\* str.lower() on the method names and completed markers of the model
LowerTable ==
    [s \in {"Click", "CLICK", "TYPE", "Navigate", "waitForTimeout",
            "scrollIntoViewIfNeeded", "selectOption", "TRUE", "Yes",
            "Completed", "False", "Login", "Submit", "MENU", "Test"} |->
        CASE s = "Click" -> "click"
          [] s = "Login" -> "login"
          [] s = "Submit" -> "submit"
          [] s = "MENU" -> "menu"
          [] s = "Test" -> "test"
          [] s = "CLICK" -> "click"
          [] s = "TYPE" -> "type"
          [] s = "Navigate" -> "navigate"
          [] s = "waitForTimeout" -> "waitfortimeout"
          [] s = "scrollIntoViewIfNeeded" -> "scrollintoviewifneeded"
          [] s = "selectOption" -> "selectoption"
          [] s = "TRUE" -> "true"
          [] s = "Yes" -> "yes"
          [] s = "Completed" -> "completed"
          [] s = "False" -> "false"]
Lower(s) == IF s \in DOMAIN LowerTable THEN LowerTable[s] ELSE s

\* int(s) for a str s: the strings of the model that int() accepts
IntOfStr == [s \in {"3", " 7 ", "0", "1", "2000"} |->
                CASE s = "3" -> 3 [] s = " 7 " -> 7 [] s = "0" -> 0
                  [] s = "1" -> 1 [] s = "2000" -> 2000]

\* tenths truncated toward zero, as int(float) does
Trunc(x) == IF x >= 0 THEN x \div 10 ELSE -((-x) \div 10)

\* int(v): a value, or the exception int() raises
PyInt(v) ==
    CASE v.t = "int" -> v
      [] v.t = "bool" -> JInt(IF v.b THEN 1 ELSE 0)
      [] v.t = "float" -> JInt(Trunc(v.x))
      [] v.t = "inf" -> Raise("OverflowError")
      [] v.t = "str" -> IF v.s \in DOMAIN IntOfStr THEN JInt(IntOfStr[v.s])
                        ELSE Raise("ValueError")
      [] v.t = "text" -> Raise("ValueError")
      [] OTHER -> Raise("TypeError")

\* try: int(v)  except (ValueError, TypeError): d
IntOrDefault(v, d) ==
    LET r == PyInt(v)
    IN IF IsRaise(r) /\ r.exc \in {"ValueError", "TypeError"} THEN JInt(d) ELSE r

(***************************************************************************)
(* Texts.  A str is a sequence of segments: whitespace, a run of prose     *)
(* (no JSON punctuation in it), the json.dumps serialization of a value,   *)
(* or a lone brace or bracket.  Strings inside values hold no braces, and  *)
(* a list that stands at the top level of a text holds no object, so the   *)
(* first "{" and the last "}" of a text always lie on segment borders.     *)
(***************************************************************************)
SegWs == [c |-> "ws"]
SegProse(w) == [c |-> "prose", w |-> w]
SegJson(v) == [c |-> "json", v |-> v]
SegLBrace == [c |-> "lbrace"]
SegRBrace == [c |-> "rbrace"]
SegLBrack == [c |-> "lbrack"]

\* json.dumps(v)
Dumps(v) == <<SegJson(v)>>

RECURSIVE LStrip(_)
LStrip(x) == IF Len(x) > 0 /\ x[1].c = "ws" THEN LStrip(Tail(x)) ELSE x
RECURSIVE RStrip(_)
RStrip(x) == IF Len(x) > 0 /\ x[Len(x)].c = "ws"
             THEN RStrip(SubSeq(x, 1, Len(x) - 1)) ELSE x
\* str.strip()
Strip(x) == RStrip(LStrip(x))

\* "{", whitespace, "}" is the text of the empty object
IsBareEmptyObject(x) ==
    /\ Len(x) >= 2
    /\ x[1].c = "lbrace"
    /\ x[Len(x)].c = "rbrace"
    /\ \A i \in 2..(Len(x) - 1) : x[i].c = "ws"

\* json.loads(x): the value, or JSONDecodeError
Loads(x) ==
    LET core == Strip(x)
    IN IF Len(core) = 1 /\ core[1].c = "json" THEN core[1].v
       ELSE IF IsBareEmptyObject(core) THEN EmptyObj
       ELSE Raise("JSONDecodeError")

IsObjSeg(s) == s.c = "json" /\ s.v.t = "obj"
HasOpenBrace(s) == s.c = "lbrace" \/ IsObjSeg(s)
HasCloseBrace(s) == s.c = "rbrace" \/ IsObjSeg(s)
StartsWithBrace(x) == Len(x) > 0 /\ HasOpenBrace(x[1])
StartsWithBracket(x) ==
    Len(x) > 0 /\ (x[1].c = "lbrack" \/ (x[1].c = "json" /\ x[1].v.t = "list"))

SetMin(S) == CHOOSE i \in S : \A j \in S : i <= j
SetMax(S) == CHOOSE i \in S : \A j \in S : i >= j

\* re.search(r'\{.*\}', x, re.DOTALL): the greedy match from the first "{"
\* to the last "}", or <<>> when there is no match
RegexBraces(x) ==
    LET opens == {i \in 1..Len(x) : HasOpenBrace(x[i])}
        closes == {j \in 1..Len(x) : HasCloseBrace(x[j])}
    IN IF opens = {} \/ closes = {} THEN <<>>
       ELSE LET i == SetMin(opens)
                j == SetMax(closes)
            IN IF j > i \/ (j = i /\ IsObjSeg(x[i])) THEN SubSeq(x, i, j)
               ELSE <<>>

(***************************************************************************)
(* _validate_computer_action                                               *)
(***************************************************************************)
VALID_METHODS ==
    {"click", "fill", "press", "hover", "scrollIntoViewIfNeeded",
     "selectOption", "check", "uncheck", "goto", "waitForTimeout",
     "type", "screenshot", "evaluate"}

method_mappings ==
    [m \in {"type", "input", "enter", "write", "key", "keypress", "navigate",
            "scroll", "wait", "left_click", "right_click", "move"} |->
        CASE m \in {"type", "input", "enter", "write"} -> "fill"
          [] m \in {"key", "keypress"} -> "press"
          [] m = "navigate" -> "goto"
          [] m = "scroll" -> "scrollIntoViewIfNeeded"
          [] m = "wait" -> "waitForTimeout"
          [] m \in {"left_click", "right_click"} -> "click"
          [] m = "move" -> "hover"]

page_level_methods == {"goto", "waitForTimeout", "evaluate", "screenshot"}

\* method = action_json.get("method") or action_json.get("action", "click")
RawMethod(o) == PyOr(Get(o, "method"), GetD(o, "action", JStr("click")))

\* fault: the method name is not lower-cased
LoweredMethodNoLower(o) ==
    IF ~Truthy(RawMethod(o)) THEN JStr("click")
    ELSE IF RawMethod(o).t = "str" THEN RawMethod(o)
    ELSE Raise("AttributeError")

\* method.lower() if method else "click": a str has lower(), nothing else has
LoweredMethod(o) ==
    LET m == RawMethod(o)
    IN IF ~Truthy(m) THEN JStr("click")
       ELSE IF m.t = "str" THEN JStr(Lower(m.s))
       ELSE Raise("AttributeError")

\* fault: the alias table without the fallback to click
MapMethodNoFallback(m) ==
    IF m \in DOMAIN method_mappings THEN method_mappings[m] ELSE m

\* the alias table, then the fallback to click; m is a lower-cased name
MapMethod(m) ==
    LET mapped == IF m \in DOMAIN method_mappings THEN method_mappings[m] ELSE m
    IN IF mapped \notin VALID_METHODS THEN "click" ELSE mapped

\* the method of the record: a name, or the exception of lower()
ResolveMethod(o) ==
    LET m == LoweredMethod(o)
    IN IF IsRaise(m) THEN m ELSE JStr(MapMethod(m.s))

\* fault: 0 for every method when element is None
DefaultElementZero(e, method) == IF e.t = "null" THEN JInt(0) ELSE e

\* if element is None: None for a page-level method, else 0
DefaultElement(e, method) ==
    IF e.t = "null"
    THEN (IF method \in page_level_methods THEN JNull ELSE JInt(0))
    ELSE e

\* if element is not None: int(element), 0 when int() refuses it
CoerceElement(e) == IF e.t # "null" THEN IntOrDefault(e, 0) ELSE JNull

\* the element of the record, for the resolved method name
ResolveElement(o, method) ==
    CoerceElement(DefaultElement(Get(o, "element"), method))

\* action_json.get("args", [None])[0], evaluated when args is a list
FirstArg(o) ==
    LET a == GetD(o, "args", JList(<<JNull>>))
    IN IF Len(a.l) = 0 THEN Raise("IndexError") ELSE a.l[1]

ArgsIsList(o) == Get(o, "args").t = "list"

\* action_json.get("arguments", {}).get(k)
ArgumentsGet(o, k) ==
    LET a == GetD(o, "arguments", EmptyObj)
    IN IF a.t = "obj" THEN Get(a.o, k) ELSE Raise("AttributeError")

\* fault: every method takes the input's args list as it is
BuildArgsVerbatim(o, method) ==
    IF "args" \in DOMAIN o /\ o["args"].t = "list" THEN o["args"]
    ELSE JList(<<>>)

\* the args of the record: a list, or the exception raised on the way
BuildArgs(o, method) ==
    LET one(v) == IF IsRaise(v) THEN v ELSE JList(<<v>>)
    IN CASE method = "fill" ->
              one(IF ArgsIsList(o) THEN FirstArg(o)
                  ELSE PyOr(Get(o, "text"), PyOr(Get(o, "value"),
                       PyOr(ArgumentsGet(o, "text"), JStr("")))))
         [] method = "press" ->
              one(IF ArgsIsList(o) THEN FirstArg(o)
                  ELSE PyOr(Get(o, "key"),
                       PyOr(ArgumentsGet(o, "key"), JStr("Enter"))))
         [] method = "goto" ->
              one(IF ArgsIsList(o) THEN FirstArg(o)
                  ELSE PyOr(Get(o, "url"), PyOr(ArgumentsGet(o, "url"),
                       PyOr(Get(o, "selector"), JStr("")))))
         [] method = "waitForTimeout" ->
              LET duration == IF ArgsIsList(o) THEN FirstArg(o)
                              ELSE PyOr(Get(o, "duration"),
                                   PyOr(ArgumentsGet(o, "duration"), JInt(1000)))
              IN IF IsRaise(duration) THEN duration
                 ELSE one(IntOrDefault(duration, 1000))
         [] method = "selectOption" ->
              one(IF ArgsIsList(o) THEN FirstArg(o)
                  ELSE PyOr(Get(o, "value"),
                       PyOr(ArgumentsGet(o, "value"), JStr(""))))
         [] OTHER ->
              IF "args" \in DOMAIN o /\ o["args"].t = "list" THEN o["args"]
              ELSE JList(<<>>)

\* f"Perform {method} action"
PerformStep(method) == JStr("Perform " \o method \o " action")

\* fault: only the step field is read
ResolveStepOnly(o, method) == PyOr(Get(o, "step"), PerformStep(method))

\* step or description or reasoning or message or the generated text
ResolveStep(o, method) ==
    PyOr(Get(o, "step"), PyOr(Get(o, "description"),
    PyOr(Get(o, "reasoning"), PyOr(Get(o, "message"), PerformStep(method)))))

\* fault: the marker strings are compared as they come
ResolveCompletedNoLower(o) ==
    IF GetD(o, "completed", JBool(FALSE)).t = "str"
    THEN JBool(GetD(o, "completed", JBool(FALSE)).s
               \in {"true", "yes", "1", "completed"})
    ELSE JBool(Truthy(GetD(o, "completed", JBool(FALSE))))

\* completed: a str is true when its lower-cased form is a marker, anything
\* else goes through bool()
ResolveCompleted(o) ==
    LET c == GetD(o, "completed", JBool(FALSE))
    IN IF c.t = "str"
       THEN JBool(Lower(c.s) \in {"true", "yes", "1", "completed"})
       ELSE JBool(Truthy(c))

\* the Action Record as a dict
ActionRecord(method, element, args, step, completed) ==
    JObj([method |-> method, element |-> element, args |-> args,
          step |-> step, completed |-> completed])

\* the rest of _validate_computer_action once args is built
ValidateFromArgs(o, method, element, args) ==
    IF IsRaise(args) THEN args
    ELSE ActionRecord(method, element, args, ResolveStep(o, method.s),
                      ResolveCompleted(o))

\* the rest of _validate_computer_action once element is resolved
ValidateFromElement(o, method, element) ==
    IF IsRaise(element) THEN element
    ELSE ValidateFromArgs(o, method, element, BuildArgs(o, method.s))

\* the rest of _validate_computer_action once method is resolved
ValidateFromMethod(o, method) ==
    IF IsRaise(method) THEN method
    ELSE ValidateFromElement(o, method, ResolveElement(o, method.s))

\* _validate_computer_action(action_json): the record, or the exception that
\* leaves it; anything but a dict has no get()
ValidateComputerAction(a) ==
    IF a.t # "obj" THEN Raise("AttributeError")
    ELSE ValidateFromMethod(a.o, ResolveMethod(a.o))

(***************************************************************************)
(* _ensure_json_content                                                    *)
(***************************************************************************)
\* fault: the default record without its duration
DefaultWaitRecordNoArgs ==
    ActionRecord(JStr("waitForTimeout"), JNull, JList(<<>>),
                 JStr("No action specified - waiting"), JBool(FALSE))

\* the record returned for empty content
DefaultWaitRecord ==
    ActionRecord(JStr("waitForTimeout"), JNull, JList(<<JInt(1000)>>),
                 JStr("No action specified - waiting"), JBool(FALSE))

\* fault: the step is the stripped content
WrapRecordStripped(c) ==
    ActionRecord(JStr("click"), JInt(0), JList(<<>>), JText(Strip(c.x)),
                 JBool(FALSE))

\* the plain-text wrapping: the step is the content as received
WrapRecord(c) ==
    ActionRecord(JStr("click"), JInt(0), JList(<<>>), c, JBool(FALSE))

\* fault: the brace search is tried on every text
LooksLikeJsonAlways(stripped) == TRUE

\* content_stripped.startswith('{') or content_stripped.startswith('[')
LooksLikeJson(stripped) == StartsWithBrace(stripped) \/ StartsWithBracket(stripped)

\* bare except: whatever the inner try block raised is dropped
OrNone(v) == IF IsRaise(v) THEN JNull ELSE v

\* json.loads(potential_json) and the validation of what it gives
ParseAndValidate(parsed) ==
    IF IsRaise(parsed) THEN JNull ELSE OrNone(ValidateComputerAction(parsed))

\* if json_match: ... for the match m (<<>> when the search found nothing)
ValidateMatch(m) == IF Len(m) = 0 THEN JNull ELSE ParseAndValidate(Loads(m))

\* the inner try block: the validated record of the brace match, or JNull
\* when there is no match or anything in the block raised
ExtractAndValidate(stripped) == ValidateMatch(RegexBraces(stripped))

\* the result of the handler: the record found, else the wrapped content
FoundOrWrapped(c, found) ==
    IF found.t # "null" THEN JText(Dumps(found))
    ELSE JText(Dumps(WrapRecord(c)))

\* the except (json.JSONDecodeError, ValueError) handler
RecoverFromText(c) ==
    FoundOrWrapped(c, IF LooksLikeJson(Strip(c.x))
                      THEN ExtractAndValidate(Strip(c.x)) ELSE JNull)

\* the outer try block after the validation of the strict parse: a ValueError
\* goes to the handler, any other exception leaves the function
StrictValidated(c, validated) ==
    IF ~IsRaise(validated) THEN JText(Dumps(validated))
    ELSE IF validated.exc = "ValueError" THEN RecoverFromText(c)
    ELSE validated

\* the outer try block after json.loads(content)
StrictParsed(c, parsed) ==
    IF IsRaise(parsed) THEN RecoverFromText(c)
    ELSE StrictValidated(c, ValidateComputerAction(parsed))

\* _ensure_json_content(content): the returned str, or the exception that
\* leaves it.  A str content is a JText; any other truthy content has no
\* strip(), so the isinstance branches after the emptiness test are dead.
EnsureJsonContent(c) ==
    IF ~Truthy(c) THEN JText(Dumps(DefaultWaitRecord))
    ELSE IF c.t # "text" THEN Raise("AttributeError")
    ELSE IF Len(Strip(c.x)) = 0 THEN JText(Dumps(DefaultWaitRecord))
    ELSE StrictParsed(c, Loads(c.x))

(***************************************************************************)
(* Inputs of the normalizer.                                               *)
(***************************************************************************)
\* most fields of an input object
MaxFields == 2
\* most fields of an object that stands inside a text with other segments
MaxWrappedFields == 1

MethodNames ==
    VALID_METHODS \cup DOMAIN method_mappings \cup
    {"Click", "TYPE", "Navigate", "fly", "waitfortimeout", ""}

RichArguments ==
    JObj([text |-> JStr("from arguments"), key |-> JStr("Tab"),
          url |-> JStr("https://b.test"), duration |-> JStr("3"),
          value |-> JStr("opt2")])

KeySeq ==
    <<"method", "action", "element", "args", "text", "value", "key", "url",
      "selector", "duration", "arguments", "step", "description",
      "reasoning", "message", "completed", "note">>

FieldValues(k) ==
    CASE k = "method" ->
            {JStr(m) : m \in MethodNames} \cup {JNull, JInt(5), JList(<<>>)}
      [] k = "action" ->
            {JStr("type"), JStr("Navigate"), JStr("fly"), JStr(""), JNull,
             JBool(TRUE)}
      [] k = "element" ->
            {JNull, JInt(3), JInt(0), JStr(" 7 "), JStr("abc"), JBool(TRUE),
             JFloat(25), JInf, JList(<<JInt(1)>>)}
      [] k = "args" ->
            {JList(<<>>), JList(<<JStr("hello")>>), JList(<<JInt(2000)>>),
             JList(<<JNull>>), JList(<<JStr("a"), JStr("b")>>), JStr("hello"),
             JNull}
      [] k = "text" -> {JStr("hello"), JStr("")}
      [] k = "value" -> {JStr("hello"), JStr("opt"), JStr(""), JInt(0)}
      [] k = "key" -> {JStr("Escape"), JNull}
      [] k = "url" -> {JStr("https://a.test"), JStr("")}
      [] k = "selector" -> {JStr("#main")}
      [] k = "duration" ->
            {JInt(2000), JStr("2000"), JStr("abc"), JFloat(15), JInt(0), JInf}
      [] k = "arguments" -> {EmptyObj, RichArguments, JStr("hello"), JNull}
      [] k = "step" -> {JStr("Click the link"), JStr(""), JInt(5), JNull}
      [] k = "description" -> {JStr("a description"), JStr("")}
      [] k = "reasoning" -> {JStr("a reasoning"), JStr("")}
      [] k = "message" -> {JStr("a message"), JStr("")}
      [] k = "completed" ->
            {JBool(TRUE), JBool(FALSE), JStr("true"), JStr("TRUE"),
             JStr("Yes"), JStr("1"), JStr("completed"), JStr("False"),
             JStr("no"), JStr(""), JInt(1), JInt(0), JNull}
      [] k = "note" -> {JInt(1)}

\* the dicts of S, and those of fewer than n fields with the key k added
WithKey(S, k, n) ==
    S \cup {f @@ (k :> v) :
              f \in {g \in S : Cardinality(DOMAIN g) < n}, v \in FieldValues(k)}

\* the dicts over the first i keys that have at most n fields
RECURSIVE DictsUpTo(_, _)
DictsUpTo(i, n) ==
    IF i = 0 THEN {<<>>} ELSE WithKey(DictsUpTo(i - 1, n), KeySeq[i], n)

InputObjects == {JObj(f) : f \in DictsUpTo(Len(KeySeq), MaxFields)}
WrappedObjects == {JObj(f) : f \in DictsUpTo(Len(KeySeq), MaxWrappedFields)}

\* most argument-bearing fields of an object next to its method
MaxArgFields == 3

\* the fields the args of a record are built from
ArgKeys ==
    <<"args", "text", "value", "key", "url", "selector", "duration",
      "arguments">>

\* the fields the step of a record is taken from
StepKeys == <<"step", "description", "reasoning", "message">>

\* the dicts over the first i keys of ks that have at most n fields
RECURSIVE DictsOver(_, _, _)
DictsOver(ks, i, n) ==
    IF i = 0 THEN {<<>>} ELSE WithKey(DictsOver(ks, i - 1, n), ks[i], n)

\* method names that reach each branch of the args construction
ArgMethods == {"fill", "type", "press", "goto", "wait", "hover", "selectOption"}

\* objects with a method and up to MaxArgFields argument-bearing fields
ArgObjects ==
    {JObj(f @@ ("method" :> JStr(m))) :
        f \in DictsOver(ArgKeys, Len(ArgKeys), MaxArgFields), m \in ArgMethods}

\* objects with any of the four step fields, with and without a method
StepObjects ==
    {JObj(f) : f \in DictsOver(StepKeys, Len(StepKeys), Len(StepKeys))} \cup
    {JObj(f @@ ("method" :> JStr("navigate"))) :
        f \in DictsOver(StepKeys, Len(StepKeys), Len(StepKeys))}

\* the shapes of a text that holds the serialization of one object v:
\* bare, inside whitespace, after or before prose, inside an unclosed
\* list, after a list, before a second object, with a brace too many
ObjectShapes == 1..10
ShapedText(shape, v, w) ==
    CASE shape = 1 -> <<SegJson(v)>>
      [] shape = 2 -> <<SegWs, SegJson(v), SegWs>>
      [] shape = 3 -> <<SegProse(w), SegWs, SegJson(v)>>
      [] shape = 4 -> <<SegJson(v), SegWs, SegProse(w)>>
      [] shape = 5 -> <<SegWs, SegJson(v), SegProse(w), SegWs>>
      [] shape = 6 -> <<SegLBrack, SegJson(v)>>
      [] shape = 7 -> <<SegJson(JList(<<JInt(1)>>)), SegWs, SegJson(v)>>
      [] shape = 8 -> <<SegJson(v), SegWs, SegJson(EmptyObj)>>
      [] shape = 9 -> <<SegLBrace, SegJson(v)>>
      [] shape = 10 -> <<SegJson(v), SegRBrace>>

ProseWords == {"Click the blue button", "Sure, here is the action:"}

\* texts without an object: empty, blank, prose, broken JSON, and the
\* serializations of values that are not objects
OtherTexts ==
    {<<>>, <<SegWs>>, <<SegWs, SegWs>>,
     <<SegLBrace>>, <<SegRBrace, SegLBrace>>, <<SegLBrace, SegWs, SegRBrace>>,
     <<SegLBrace, SegRBrace, SegProse("Click the blue button")>>,
     <<SegLBrace, SegProse("Click the blue button"), SegRBrace>>,
     <<SegLBrack, SegProse("Click the blue button")>>,
     <<SegJson(JList(<<JInt(1), JInt(2)>>))>>, <<SegJson(JList(<<>>))>>,
     <<SegJson(JList(<<JInt(1)>>)), SegProse("Click the blue button")>>,
     <<SegJson(JInt(5))>>, <<SegJson(JInt(0))>>, <<SegJson(JStr("hello"))>>,
     <<SegJson(JBool(TRUE))>>, <<SegJson(JBool(FALSE))>>, <<SegJson(JNull)>>,
     <<SegWs, SegJson(JInt(5))>>,
     <<SegProse("Click the blue button")>>,
     <<SegWs, SegProse("Click the blue button"), SegWs>>,
     <<SegProse("Sure, here is the action:"), SegWs,
       SegProse("Click the blue button")>>}

\* the texts handed to the normalizer
IsInputText(x) ==
    \/ x \in OtherTexts
    \/ \E v \in InputObjects : x = ShapedText(1, v, "")
    \/ \E v \in ArgObjects : x = ShapedText(1, v, "")
    \/ \E v \in StepObjects : x = ShapedText(1, v, "")
    \/ \E v \in WrappedObjects, shape \in ObjectShapes \ {1}, w \in ProseWords :
          x = ShapedText(shape, v, w)

(***************************************************************************)
(* The normalizer applied to a text, and applied again to its own output.  *)
(***************************************************************************)
\* no driver of the frontend runs
FrontIdle ==
    /\ driver = "none"
    /\ dpc = "off"
    /\ source = "none"
    /\ typed = <<>>
    /\ prompt = JNull
    /\ agent_response = JNull
    /\ test_scenarios = <<>>
    /\ idx = 0
    /\ results = <<>>
    /\ agent = JNull
    /\ sessions = <<>>
    /\ cycle = JNull
    /\ exit_code = JNull

ProxyIdle ==
    /\ pc = "idle"
    /\ variant = "none"
    /\ upstream = JNull
    /\ result = JNull
    /\ served = 0
    /\ client = [st |-> "absent"]
    /\ server = [st |-> "absent"]
    /\ request = JNull
    /\ callerMessages = <<>>
    /\ sent = <<>>

InitNorm ==
    /\ IsInputText(content)
    /\ out = JNull
    /\ out2 = JNull
    /\ npc = "input"
    /\ ProxyIdle
    /\ FrontIdle
    /\ env = [OPENROUTER_API_KEY |-> JNull, STAGEHAND_MODEL |-> JNull,
              OPENROUTER_MODEL |-> JNull]

\* out = self._ensure_json_content(content)
Normalize ==
    /\ npc = "input"
    /\ out' = EnsureJsonContent(JText(content))
    /\ npc' = "once"
    /\ UNCHANGED <<content, out2>>
    /\ UNCHANGED proxyVars
    /\ UNCHANGED frontVars

\* the returned text is normalized once more
Renormalize ==
    /\ npc = "once"
    /\ ~IsRaise(out)
    /\ out2' = EnsureJsonContent(out)
    /\ npc' = "twice"
    /\ UNCHANGED <<content, out>>
    /\ UNCHANGED proxyVars
    /\ UNCHANGED frontVars

NextNorm == Normalize \/ Renormalize

SpecNorm == InitNorm /\ [][NextNorm]_vars

(***************************************************************************)
(* The upstream API as the two proxies see it.                             *)
(***************************************************************************)
\* most choices in an upstream response
MaxChoices == 2
\* requests handled in one run
MaxRequests == 2

NormalizedClick ==
    ActionRecord(JStr("click"), JInt(3), JList(<<>>), JStr("Click the link"),
                 JBool(TRUE))

\* values of choices[i].message.content in an upstream response
UpstreamContents ==
    {JText(<<>>), JText(<<SegWs>>), JNull, JInt(0),
     JText(<<SegProse("Click the blue button")>>),
     JText(Dumps(JObj([method |-> JStr("click"), element |-> JInt(3)]))),
     JText(Dumps(JObj([action |-> JStr("wait"), duration |-> JInt(2000)]))),
     JText(<<SegProse("Sure, here is the action:"), SegWs,
             SegJson(JObj([method |-> JStr("hover")]))>>),
     JText(Dumps(NormalizedClick)),
     JText(Dumps(JList(<<JInt(1)>>))),
     JObj([method |-> JStr("click")])}

UpstreamChoice(c) ==
    JObj([index |-> JInt(0),
          message |-> JObj([role |-> JStr("assistant"), content |-> c])])

UpstreamChoices ==
    {UpstreamChoice(c) : c \in UpstreamContents} \cup
    {JObj([message |-> JObj([role |-> JStr("assistant")])]),
     JObj([message |-> JNull]),
     JNull}

ChoiceLists == UNION {[1..n -> UpstreamChoices] : n \in 0..MaxChoices}

\* bodies of a 2xx answer that are JSON
UpstreamBodies ==
    {JObj([id |-> JStr("gen-1"), choices |-> JList(cs)]) : cs \in ChoiceLists}
    \cup {EmptyObj, JObj([choices |-> JNull]), JList(<<>>),
          JObj([error |-> JObj([message |-> JStr("Provider returned error")])])}

\* bodies of a non-2xx answer, as text
ErrorBodies ==
    {Dumps(JObj([error |-> JObj([message |-> JStr("Invalid API key")])])),
     Dumps(JObj([error |-> JObj([code |-> JInt(401)])])),
     Dumps(JObj([error |-> JStr("denied")])),
     Dumps(JObj([error |-> JNull])),
     Dumps(JObj([detail |-> JStr("rate limited")])),
     Dumps(JList(<<>>)),
     <<SegProse("Bad Gateway")>>,
     <<>>}

ErrorStatuses == {401, 429, 500, 503}

\* what the upstream call can come to.  text is str(e) of the exception the
\* HTTP library raises; a 2xx answer whose body is not JSON makes
\* response.json() raise, which is a RequestException in requests from 2.27
\* on and a plain ValueError before (asRequestException)
UpstreamOutcomes ==
    {[kind |-> "ok", body |-> b] : b \in UpstreamBodies} \cup
    {[kind |-> "timeout", text |-> "Read timed out"],
     [kind |-> "connection", text |-> "Connection refused"]} \cup
    {[kind |-> "status", status |-> st, body |-> b, text |-> "HTTP error"] :
        st \in ErrorStatuses, b \in ErrorBodies} \cup
    {[kind |-> "badbody", asRequestException |-> r, text |-> "Expecting value"] :
        r \in BOOLEAN}

(***************************************************************************)
(* openrouter_client.py: chat_completion and _normalize_openai_response    *)
(***************************************************************************)
\* the characters of str(v) for the messages of the model, which are strs
AsSegs(v) == IF v.t = "text" THEN v.x ELSE <<SegProse(v.s)>>

\* f"Error: {error_message}"
ErrorStep(msg) == JText(<<SegProse("Error: ")>> \o AsSegs(msg))

\* error_message of the except RequestException handler
ClientErrorMessage(u) ==
    LET base == JStr(u.text)
    IN IF u.kind # "status" THEN base
       ELSE LET fromText == IF Len(u.body) > 0 THEN JText(u.body) ELSE base
                error_data == Loads(u.body)
            IN IF IsRaise(error_data) \/ error_data.t # "obj" THEN fromText
               ELSE LET err == GetD(error_data.o, "error", EmptyObj)
                    IN IF err.t # "obj" THEN fromText
                       ELSE GetD(err.o, "message", base)

\* the record the client puts into its fallback response
ClientErrorRecord(msg) ==
    ActionRecord(JStr("waitForTimeout"), JNull, JList(<<JInt(1000)>>),
                 ErrorStep(msg), JBool(FALSE))

\* the record of the choice that stands in for an empty choices list
NoChoicesRecord ==
    ActionRecord(JStr("waitForTimeout"), JNull, JList(<<JInt(1000)>>),
                 JStr("I apologize, but I couldn't generate a response."),
                 JBool(FALSE))

SyntheticChoice(rec) ==
    [t |-> "choice", index |-> JInt(0), role |-> JStr("assistant"),
     content |-> JText(Dumps(rec))]

\* a chat.completion dict handed back to the caller
Completion(choices) ==
    [t |-> "completion", object |-> "chat.completion", choices |-> choices]

\* the content handed to the normalizer for one upstream choice, or the
\* exception of reading it: get() exists on dicts only
ChoiceContent(choice) ==
    IF choice.t # "obj" THEN Raise("AttributeError")
    ELSE LET message == GetD(choice.o, "message", EmptyObj)
         IN IF message.t # "obj" THEN Raise("AttributeError")
            ELSE LET c == GetD(message.o, "content", JText(<<>>))
                 IN IF c.t = "null" THEN JText(<<>>) ELSE c

\* normalized_choice for the normalized content n
NormalizedChoice(choice, n) ==
    IF IsRaise(n) THEN n
    ELSE [t |-> "choice",
          index |-> GetD(choice.o, "index", JInt(0)),
          role |-> GetD(GetD(choice.o, "message", EmptyObj).o,
                        "role", JStr("assistant")),
          content |-> n]

\* fault: the content is passed on without the call of the normalizer
NormalizeContentRaw(c) == c

\* content = self._ensure_json_content(content), unless reading it raised
NormalizeContent(c) == IF IsRaise(c) THEN c ELSE EnsureJsonContent(c)

\* one pass of the loop over response_data["choices"]
NormalizeChoice(choice) ==
    NormalizedChoice(choice, NormalizeContent(ChoiceContent(choice)))

FirstRaise(passes) == SetMin({i \in 1..Len(passes) : IsRaise(passes[i])})

\* fault: only the first choice is kept
LoopResultFirstOnly(passes) ==
    IF IsRaise(passes[1]) THEN passes[1] ELSE Completion(<<passes[1]>>)

\* the loop over the choices ends at the first pass that raises
LoopResult(passes) ==
    IF \E i \in 1..Len(passes) : IsRaise(passes[i]) THEN passes[FirstRaise(passes)]
    ELSE Completion(passes)

\* _normalize_openai_response(response_data, model)
NormalizeOpenAIResponse(body) ==
    IF body.t # "obj" THEN Raise("AttributeError")
    ELSE IF "choices" \notin DOMAIN body.o
         THEN Completion(<<SyntheticChoice(NoChoicesRecord)>>)
    ELSE LET cs == body.o["choices"]
         IN IF cs.t # "list" THEN Raise("TypeError")
            ELSE IF Len(cs.l) = 0
                 THEN Completion(<<SyntheticChoice(NoChoicesRecord)>>)
            ELSE LoopResult([i \in 1..Len(cs.l) |-> NormalizeChoice(cs.l[i])])

\* fault: the clause narrowed to requests.exceptions.HTTPError
IsRequestExceptionHttpOnly(u) == u.kind = "status"

\* whether the except requests.exceptions.RequestException clause catches
IsRequestException(u) ==
    \/ u.kind \in {"timeout", "connection", "status"}
    \/ u.kind = "badbody" /\ u.asRequestException

\* chat_completion of openrouter_client.py from the outcome of requests.post
\* on: the dict it returns or the exception that leaves it
ClientChatCompletion(u) ==
    IF u.kind = "ok" THEN NormalizeOpenAIResponse(u.body)
    ELSE IF IsRequestException(u)
         THEN Completion(<<SyntheticChoice(ClientErrorRecord(ClientErrorMessage(u)))>>)
    ELSE Raise("ValueError")

(***************************************************************************)
(* server.py: chat_completion behind POST /v1/chat/completions             *)
(***************************************************************************)
HttpResponse(status, body) == [t |-> "http", status |-> status, body |-> body]

\* the answer FastAPI gives: the upstream JSON with status 200, or the
\* HTTPException the handler raised
ServerChatCompletion(u) ==
    CASE u.kind = "ok" -> HttpResponse(200, u.body)
      [] u.kind = "status" ->
            HttpResponse(u.status,
                JObj([detail |-> JText(<<SegProse("OpenRouter API error: ")>> \o u.body)]))
      [] OTHER ->
            HttpResponse(500,
                JObj([detail |-> JText(<<SegProse("Error calling OpenRouter: "),
                                         SegProse(u.text)>>)]))

(***************************************************************************)
(* The environment and the construction of the two proxies.                *)
(***************************************************************************)
\* what os.getenv gives for the three variables the constructors read
Envs ==
    {[OPENROUTER_API_KEY |-> k, STAGEHAND_MODEL |-> m, OPENROUTER_MODEL |-> JNull] :
        k \in {JNull, JStr(""), JStr("sk-or-test")},
        m \in {JNull, JStr("openai/gpt-4o")}} \cup
    {[OPENROUTER_API_KEY |-> JStr("sk-or-test"), STAGEHAND_MODEL |-> JStr(""),
      OPENROUTER_MODEL |-> JNull]} \cup
    {[OPENROUTER_API_KEY |-> JStr("sk-or-test"),
      STAGEHAND_MODEL |-> JStr("openai/gpt-4o"),
      OPENROUTER_MODEL |-> JStr("meta/llama-3")]}

\* fault: the constructor does not look at the variable
IsConfiguredAlways(v) == TRUE

\* the test "if not self.api_key" / "if not self.default_model" passes
IsConfigured(v) == Truthy(v)

DefaultModel == JStr("deepseek/deepseek-r1-distill-qwen-32b")

\* os.getenv(name, default)
GetEnv(e, name, default) == IF e[name].t = "null" THEN default ELSE e[name]

\* OpenRouterClient() of openrouter_client.py: the object, or the ValueError
NewClient(e) ==
    IF ~IsConfigured(e["OPENROUTER_API_KEY"])
    THEN [st |-> "failed", exc |-> "ValueError"]
    ELSE [st |-> "ready",
          api_key |-> e["OPENROUTER_API_KEY"],
          model |-> GetEnv(e, "OPENROUTER_MODEL", DefaultModel),
          bearer |-> e["OPENROUTER_API_KEY"]]

\* OpenRouterClient() of server.py, run when the module is loaded
NewServer(e) ==
    IF ~IsConfigured(e["OPENROUTER_API_KEY"])
    THEN [st |-> "failed", exc |-> "ValueError"]
    ELSE IF ~IsConfigured(e["STAGEHAND_MODEL"])
    THEN [st |-> "failed", exc |-> "ValueError"]
    ELSE [st |-> "ready",
          api_key |-> e["OPENROUTER_API_KEY"],
          model |-> e["STAGEHAND_MODEL"],
          bearer |-> e["OPENROUTER_API_KEY"]]

(***************************************************************************)
(* Requests and the payload each proxy builds from them.                   *)
(***************************************************************************)
\* json_instruction, the fixed text of _inject_json_instruction
JsonInstruction == <<SegProse("json_instruction")>>

\* "\n\n"
SegBlankLine == [c |-> "ws", w |-> "blank line"]

ChatMessage(role, text) ==
    JObj([role |-> JStr(role), content |-> JText(<<SegProse(text)>>)])

HelloMessages == <<ChatMessage("user", "Hello")>>

\* the message lists of the callers
MessageLists ==
    {HelloMessages,
     <<>>,
     <<ChatMessage("system", "You are helpful"), ChatMessage("user", "Hello")>>,
     <<ChatMessage("user", "Hello"), ChatMessage("system", "You are helpful"),
       ChatMessage("assistant", "Hi"), ChatMessage("system", "Be brief")>>,
     <<ChatMessage("user", "Hello"), ChatMessage("assistant", "Hi"),
       ChatMessage("user", "Again")>>,
     <<JObj([role |-> JStr("system"), content |-> JText(<<>>)]),
       ChatMessage("user", "Hello")>>,
     <<JObj([role |-> JStr("system"),
             content |-> JList(<<JObj([type |-> JStr("text")])>>)]),
       ChatMessage("user", "Hello")>>,
     <<JObj([role |-> JStr("system")]), ChatMessage("user", "Hello")>>,
     <<JObj([content |-> JText(<<SegProse("Hello")>>)])>>}

JsonObjectFormat == JObj([type |-> JStr("json_object")])

\* the keyword arguments beyond model, temperature and max_tokens
KwargsSets ==
    {<<>>,
     [response_format |-> JNull],
     [response_format |-> JObj([type |-> JStr("text")])],
     [response_format |-> JsonObjectFormat],
     [top_p |-> JInt(1)],
     [top_p |-> JNull],
     [response_format |-> JObj([type |-> JStr("text")]), top_p |-> JInt(1)]}

ChatRequest(messages, model, max_tokens, kwargs) ==
    [messages |-> messages, model |-> model, temperature |-> JFloat(7),
     max_tokens |-> max_tokens, kwargs |-> kwargs]

\* the calls of chat_completion the model makes
Requests ==
    {ChatRequest(m, JNull, JNull, <<>>) : m \in MessageLists} \cup
    {ChatRequest(HelloMessages, JNull, JNull, k) : k \in KwargsSets} \cup
    {ChatRequest(HelloMessages, model, max_tokens, <<>>) :
        model \in {JNull, JStr("openai/gpt-4o-mini")},
        max_tokens \in {JNull, JInt(0), JInt(5)}}

\* ChatCompletionRequest accepts the request: every message has a role and
\* a content that is a str or a list
IsChatCompletionRequest(req) ==
    /\ req.model.t = "str"
    /\ \A i \in 1..Len(req.messages) :
          /\ DOMAIN req.messages[i].o = {"role", "content"}
          /\ req.messages[i].o["content"].t \in {"text", "list"}

\* a Tool of the request as the caller wrote it, with or without the
\* optional description
ToolClick == JObj([type |-> JStr("function"),
                   function |-> JObj([name |-> JStr("click")])])
ToolFill ==
    JObj([type |-> JStr("function"),
          function |-> JObj([name |-> JStr("fill"),
                             description |-> JStr("Fill an input")])])

\* the tools and tool_choice fields of the requests to the server
ToolKwargs ==
    {[tools |-> JList(<<>>)],
     [tools |-> JList(<<ToolClick, ToolFill>>), tool_choice |-> JStr("auto")],
     [tools |-> JNull, tool_choice |-> JNull],
     [tool_choice |-> JStr("none")]}

\* the requests to POST /v1/chat/completions: the model field is required,
\* temperature may be given as null
ServerRequests ==
    {[r EXCEPT !.model = JStr("openai/gpt-4o-mini")] : r \in Requests} \cup
    {[ChatRequest(HelloMessages, JStr("openai/gpt-4o-mini"), JNull, k)
         EXCEPT !.temperature = tmp] : k \in ToolKwargs, tmp \in {JNull, JFloat(7)}}

IsSystemMessage(msg) == Get(msg.o, "role") = JStr("system")

HasSystem(ms) == \E i \in 1..Len(ms) : IsSystemMessage(ms[i])

\* the position the loop of _inject_json_instruction breaks at
FirstSystem(ms) == SetMin({i \in 1..Len(ms) : IsSystemMessage(ms[i])})

\* msg["content"] = json_instruction + "\n\n" + msg["content"]
PrependInstruction(msg) ==
    IF "content" \notin DOMAIN msg.o THEN Raise("KeyError")
    ELSE IF msg.o["content"].t # "text" THEN Raise("TypeError")
    ELSE JObj([msg.o EXCEPT !["content"] =
                  JText(JsonInstruction \o <<SegBlankLine>> \o @.x)])

\* the list with the message at position i replaced by m, or the exception
ReplacedAt(ms, i, m) == IF IsRaise(m) THEN m ELSE JList([ms EXCEPT ![i] = m])

\* fault: the system message is always inserted
InjectAlwaysInsert(ms) ==
    JList(<<JObj([role |-> JStr("system"), content |-> JText(JsonInstruction)])>>
          \o ms)

\* _inject_json_instruction(messages): the enhanced list, or the exception
InjectJsonInstruction(ms) ==
    IF HasSystem(ms)
    THEN ReplacedAt(ms, FirstSystem(ms), PrependInstruction(ms[FirstSystem(ms)]))
    ELSE JList(<<JObj([role |-> JStr("system"), content |-> JText(JsonInstruction)])>>
               \o ms)

\* the caller's list after the call: the copy is shallow, so the system
\* message that got the instruction is the caller's own dict
CallerMessagesAfter(ms) ==
    IF HasSystem(ms) /\ ~IsRaise(InjectJsonInstruction(ms))
    THEN InjectJsonInstruction(ms).l ELSE ms

\* fault: the json_object format is set whatever the caller passed
ForcedFormatAlways(kwargs) == [response_format |-> JsonObjectFormat]

\* if "response_format" not in kwargs: payload["response_format"] = ...
ForcedFormat(kwargs) ==
    IF "response_format" \notin DOMAIN kwargs
    THEN [response_format |-> JsonObjectFormat] ELSE <<>>

\* if max_tokens: payload["max_tokens"] = max_tokens
MaxTokensEntry(max_tokens) ==
    IF Truthy(max_tokens) THEN [max_tokens |-> max_tokens] ELSE <<>>

\* the entries the loop over kwargs adds to the payload p
ExtraEntries(p, kwargs) ==
    [k \in {j \in DOMAIN kwargs : j \notin DOMAIN p /\ kwargs[j].t # "null"}
        |-> kwargs[k]]

\* the payload once the messages are enhanced
PayloadWith(self, req, enhanced) ==
    IF IsRaise(enhanced) THEN enhanced
    ELSE LET p == [model |-> PyOr(req.model, self.model),
                   messages |-> enhanced,
                   temperature |-> req.temperature]
                  @@ ForcedFormat(req.kwargs) @@ MaxTokensEntry(req.max_tokens)
         IN JObj(p @@ ExtraEntries(p, req.kwargs))

\* payload of chat_completion in openrouter_client.py, or the exception
ClientPayload(self, req) ==
    PayloadWith(self, req, InjectJsonInstruction(req.messages))

\* fault: the entry is added whatever the value
OptionalEntryAlways(k, v) == (k :> v)

\* an entry of the server payload that is added when the value is not None
OptionalEntry(k, v) == IF v.t = "null" THEN <<>> ELSE (k :> v)

\* tool.model_dump() of a Tool: every field of Tool and ToolFunction, the
\* ones the caller left out as None
ToolDump(tool) ==
    JObj([type |-> tool.o["type"],
          function |->
              JObj([name |-> tool.o["function"].o["name"],
                    description |-> Get(tool.o["function"].o, "description"),
                    parameters |-> Get(tool.o["function"].o, "parameters")])])

\* [tool.model_dump() for tool in request.tools], None for no tools
ToolsDump(tools) ==
    IF tools.t = "null" THEN JNull
    ELSE JList([i \in 1..Len(tools.l) |-> ToolDump(tools.l[i])])

\* _build_request_payload of server.py
ServerPayload(self, req) ==
    JObj([model |-> PyOr(self.model, req.model),
          messages |-> JList([i \in 1..Len(req.messages) |->
                          JObj([role |-> req.messages[i].o["role"],
                                content |-> req.messages[i].o["content"]])])]
         @@ OptionalEntry("temperature", req.temperature)
         @@ OptionalEntry("max_tokens", req.max_tokens)
         @@ OptionalEntry("response_format", Get(req.kwargs, "response_format"))
         @@ OptionalEntry("tools", ToolsDump(Get(req.kwargs, "tools")))
         @@ OptionalEntry("tool_choice", Get(req.kwargs, "tool_choice")))

\* one HTTP POST to the upstream endpoint
UpstreamCall(self, payload) == [bearer |-> self.bearer, payload |-> payload]

\* the outcome recorded for a request that ended before any call was sent
NotSent == [kind |-> "unsent"]

\* fault: a failed call is sent once more
RetryCallsOnFailure(u, call) == IF u.kind = "ok" THEN <<>> ELSE <<call>>

\* the calls made after the outcome u of the first one: the handlers return
\* or raise, none posts again
RetryCalls(u, call) == <<>>

(***************************************************************************)
(* One request at a time through either proxy.                             *)
(***************************************************************************)
NormIdle ==
    /\ content = <<>>
    /\ out = JNull
    /\ out2 = JNull
    /\ npc = "unused"

Init == ProxyIdle /\ NormIdle /\ FrontIdle /\ env \in Envs

\* client = OpenRouterClient() in a program that uses openrouter_client.py
ConstructClient ==
    /\ client.st = "absent"
    /\ client' = NewClient(env)
    /\ UNCHANGED <<pc, variant, upstream, result, served, env, server>>
    /\ UNCHANGED callVars
    /\ UNCHANGED normVars
    /\ UNCHANGED frontVars

\* server.py is loaded: openrouter_client = OpenRouterClient()
StartServer ==
    /\ server.st = "absent"
    /\ server' = NewServer(env)
    /\ UNCHANGED <<pc, variant, upstream, result, served, env, client>>
    /\ UNCHANGED callVars
    /\ UNCHANGED normVars
    /\ UNCHANGED frontVars

\* chat_completion of the client up to requests.post: the payload is built
\* and posted, or building it raises and the call ends there
ClientCallWith(req) ==
    /\ variant' = "client"
    /\ request' = req
    /\ callerMessages' = CallerMessagesAfter(req.messages)
    /\ IF IsRaise(ClientPayload(client, req))
       THEN /\ pc' = "done"
            /\ upstream' = NotSent
            /\ result' = ClientPayload(client, req)
            /\ sent' = <<>>
            /\ served' = served + 1
       ELSE /\ pc' = "waiting"
            /\ upstream' = JNull
            /\ result' = JNull
            /\ sent' = <<UpstreamCall(client, ClientPayload(client, req))>>
            /\ UNCHANGED served
    /\ UNCHANGED bootVars
    /\ UNCHANGED normVars
    /\ UNCHANGED frontVars

ClientCall ==
    /\ pc = "idle"
    /\ served < MaxRequests
    /\ client.st = "ready"
    /\ \E req \in Requests : ClientCallWith(req)

\* the caller calls chat_completion again with the list it owns, as the
\* call before left it
ClientCallAgain ==
    /\ pc = "done"
    /\ variant = "client"
    /\ served < MaxRequests
    /\ ClientCallWith([request EXCEPT !.messages = callerMessages])

\* the route handler and chat_completion of server.py up to client.post
ServerCallWith(req) ==
    /\ variant' = "server"
    /\ pc' = "waiting"
    /\ upstream' = JNull
    /\ result' = JNull
    /\ request' = req
    /\ callerMessages' = req.messages
    /\ sent' = <<UpstreamCall(server, ServerPayload(server, req))>>
    /\ UNCHANGED served
    /\ UNCHANGED bootVars
    /\ UNCHANGED normVars
    /\ UNCHANGED frontVars

ServerCall ==
    /\ pc = "idle"
    /\ served < MaxRequests
    /\ server.st = "ready"
    /\ \E req \in ServerRequests :
          IsChatCompletionRequest(req) /\ ServerCallWith(req)

\* the request with nothing but one user message
PlainRequest == ChatRequest(HelloMessages, JNull, JNull, <<>>)

\* the same request as the server receives it
ServerPlainRequest ==
    ChatRequest(HelloMessages, JStr("openai/gpt-4o-mini"), JNull, <<>>)

\* one outcome of each kind
PlainOutcomes ==
    {[kind |-> "ok",
      body |-> JObj([id |-> JStr("gen-1"),
                     choices |-> JList(<<UpstreamChoice(
                         JText(<<SegProse("Click the blue button")>>))>>)])],
     [kind |-> "timeout", text |-> "Read timed out"],
     [kind |-> "connection", text |-> "Connection refused"],
     [kind |-> "status", status |-> 429, body |-> <<SegProse("Bad Gateway")>>,
      text |-> "HTTP error"],
     [kind |-> "badbody", asRequestException |-> TRUE, text |-> "Expecting value"]}

\* further outcomes the model pairs with the call of test_connection
ProbeOutcomes ==
    {[kind |-> "ok", body |-> JList(<<>>)],
     [kind |-> "ok",
      body |-> JObj([error |-> JObj([message |-> JStr("Provider returned error")])])],
     [kind |-> "status", status |-> 401,
      body |-> Dumps(JObj([error |-> JObj([message |-> JStr("Invalid API key")])])),
      text |-> "HTTP error"],
     [kind |-> "badbody", asRequestException |-> FALSE, text |-> "Expecting value"]}

\* the upstream answers whatever it was sent; the model pairs every
\* outcome with the plain request and every request with the plain outcomes
Answer(u) ==
    /\ pc = "waiting"
    /\ \/ request = PlainRequest
       \/ variant = "server" /\ request = ServerPlainRequest
       \/ u \in PlainOutcomes
       \/ variant = "probe" /\ u \in ProbeOutcomes
    /\ upstream' = u
    /\ pc' = "answered"
    /\ UNCHANGED <<variant, result, served>>
    /\ UNCHANGED bootVars
    /\ UNCHANGED callVars
    /\ UNCHANGED normVars
    /\ UNCHANGED frontVars

UpstreamOk == \E u \in UpstreamOutcomes : u.kind = "ok" /\ Answer(u)
UpstreamTimeout == \E u \in UpstreamOutcomes : u.kind = "timeout" /\ Answer(u)
UpstreamConnectionError ==
    \E u \in UpstreamOutcomes : u.kind = "connection" /\ Answer(u)
UpstreamStatusError == \E u \in UpstreamOutcomes : u.kind = "status" /\ Answer(u)
UpstreamBadBody == \E u \in UpstreamOutcomes : u.kind = "badbody" /\ Answer(u)

\* the rest of chat_completion in openrouter_client.py
ClientFinish ==
    /\ pc = "answered"
    /\ variant = "client"
    /\ result' = ClientChatCompletion(upstream)
    /\ sent' = sent \o RetryCalls(upstream, sent[1])
    /\ pc' = "done"
    /\ served' = served + 1
    /\ UNCHANGED <<variant, upstream, request, callerMessages>>
    /\ UNCHANGED bootVars
    /\ UNCHANGED normVars
    /\ UNCHANGED frontVars

\* the rest of chat_completion in server.py and of the route handler
ServerFinish ==
    /\ pc = "answered"
    /\ variant = "server"
    /\ result' = ServerChatCompletion(upstream)
    /\ sent' = sent \o RetryCalls(upstream, sent[1])
    /\ pc' = "done"
    /\ served' = served + 1
    /\ UNCHANGED <<variant, upstream, request, callerMessages>>
    /\ UNCHANGED bootVars
    /\ UNCHANGED normVars
    /\ UNCHANGED frontVars

\* the call test_connection makes: one user message and max_tokens=5
ProbeRequest == ChatRequest(HelloMessages, JNull, JInt(5), <<>>)

\* the keys of the dict chat_completion returned
ResponseKeys(response) == DOMAIN response \ {"t"}

\* test_connection from the outcome of the upstream call on: False when
\* chat_completion raised or its dict has an "error" key, True otherwise
TestConnection(u) ==
    IF IsRaise(ClientChatCompletion(u)) THEN JBool(FALSE)
    ELSE IF "error" \in ResponseKeys(ClientChatCompletion(u)) THEN JBool(FALSE)
    ELSE JBool(TRUE)

\* test_connection up to requests.post
ProbeCall ==
    /\ pc = "idle"
    /\ served < MaxRequests
    /\ client.st = "ready"
    /\ variant' = "probe"
    /\ request' = ProbeRequest
    /\ callerMessages' = CallerMessagesAfter(ProbeRequest.messages)
    /\ pc' = "waiting"
    /\ upstream' = JNull
    /\ result' = JNull
    /\ sent' = <<UpstreamCall(client, ClientPayload(client, ProbeRequest))>>
    /\ UNCHANGED served
    /\ UNCHANGED bootVars
    /\ UNCHANGED normVars
    /\ UNCHANGED frontVars

\* the rest of test_connection
ProbeFinish ==
    /\ pc = "answered"
    /\ variant = "probe"
    /\ result' = TestConnection(upstream)
    /\ sent' = sent \o RetryCalls(upstream, sent[1])
    /\ pc' = "done"
    /\ served' = served + 1
    /\ UNCHANGED <<variant, upstream, request, callerMessages>>
    /\ UNCHANGED bootVars
    /\ UNCHANGED normVars
    /\ UNCHANGED frontVars

\* the paths the model sends a GET to
GetPaths == {"/", "/v1", "/v1/chat/completions"}

\* the routing table of the app: GET / is read_root, the completions path
\* accepts POST only, and no other path has a route
ServeGet(path) ==
    CASE path = "/" ->
            HttpResponse(200, JObj([message |-> JStr("LLM Backend is running")]))
      [] path = "/v1/chat/completions" ->
            HttpResponse(405, JObj([detail |-> JStr("Method Not Allowed")]))
      [] OTHER -> HttpResponse(404, JObj([detail |-> JStr("Not Found")]))

\* a GET request to the running server, answered without an upstream call
HttpGet ==
    /\ pc = "idle"
    /\ served < MaxRequests
    /\ server.st = "ready"
    /\ \E path \in GetPaths :
          /\ request' = [method |-> "GET", path |-> path]
          /\ result' = ServeGet(path)
    /\ variant' = "route"
    /\ pc' = "done"
    /\ upstream' = NotSent
    /\ callerMessages' = <<>>
    /\ sent' = <<>>
    /\ served' = served + 1
    /\ UNCHANGED bootVars
    /\ UNCHANGED normVars
    /\ UNCHANGED frontVars

\* the caller has its answer; the proxy waits for the next request
NextRequest ==
    /\ pc = "done"
    /\ pc' = "idle"
    /\ variant' = "none"
    /\ upstream' = JNull
    /\ result' = JNull
    /\ request' = JNull
    /\ callerMessages' = <<>>
    /\ sent' = <<>>
    /\ UNCHANGED served
    /\ UNCHANGED bootVars
    /\ UNCHANGED normVars
    /\ UNCHANGED frontVars

Next ==
    \/ ConstructClient
    \/ StartServer
    \/ ClientCall
    \/ ClientCallAgain
    \/ ServerCall
    \/ UpstreamOk
    \/ UpstreamTimeout
    \/ UpstreamConnectionError
    \/ UpstreamStatusError
    \/ UpstreamBadBody
    \/ ClientFinish
    \/ ServerFinish
    \/ ProbeCall
    \/ ProbeFinish
    \/ HttpGet
    \/ NextRequest

Spec == Init /\ [][Next]_vars

(***************************************************************************)
(* frontend/test_agent.py: from the prompt to the test scenarios.          *)
(* A prompt is the sequence of its words; " " is a run of blanks.          *)
(***************************************************************************)
MaxPromptWords == 3

PromptWords ==
    {"Login", "authentication", "platform", "Submit", "navigation", "MENU",
     "research", "Test", " "}

Keywords ==
    {"login", "authentication", "form", "submit", "navigation", "menu", "search"}

\* the keywords that are substrings of the lower-case word w
KeywordsWithin(w) ==
    CASE w = "platform" -> {"form"}
      [] w = "research" -> {"search"}
      [] w \in Keywords -> {w}
      [] OTHER -> {}

\* prompt.lower()
PromptLower(p) == [i \in 1..Len(p) |-> Lower(p[i])]

\* kw in prompt_lower
InPrompt(kw, pl) == \E i \in 1..Len(pl) : kw \in KeywordsWithin(pl[i])

Prompts == UNION {[1..n -> PromptWords] : n \in 0..MaxPromptWords}

LoginScenarios ==
    <<"Navigate to the login page", "Enter valid credentials and submit",
      "Verify successful login",
      "Check for error messages with invalid credentials">>
FormScenarios ==
    <<"Find and fill out the main form", "Submit the form",
      "Verify submission success message", "Test form validation">>
NavigationScenarios ==
    <<"Test main navigation menu", "Verify all links work",
      "Check responsive navigation">>
SearchScenarios ==
    <<"Test search functionality", "Verify search results",
      "Test search with no results">>
DefaultScenarios ==
    <<"Navigate to the homepage", "Verify page loads correctly",
      "Test basic functionality", "Check for any errors">>

\* test_scenarios after the four extend() blocks
KeywordScenarios(pl) ==
    (IF InPrompt("login", pl) \/ InPrompt("authentication", pl)
     THEN LoginScenarios ELSE <<>>)
    \o (IF InPrompt("form", pl) \/ InPrompt("submit", pl)
        THEN FormScenarios ELSE <<>>)
    \o (IF InPrompt("navigation", pl) \/ InPrompt("menu", pl)
        THEN NavigationScenarios ELSE <<>>)
    \o (IF InPrompt("search", pl) THEN SearchScenarios ELSE <<>>)

\* fault: the default scenarios are left out
ParsePromptNoDefault(p) == KeywordScenarios(PromptLower(p))

\* _parse_prompt_to_tests(prompt)
ParsePromptToTests(p) ==
    IF KeywordScenarios(PromptLower(p)) = <<>> THEN DefaultScenarios
    ELSE KeywordScenarios(PromptLower(p))

\* agent_method(prompt): the response dict without its timestamp
AgentMethod(p) ==
    [prompt |-> p, test_scenarios |-> ParsePromptToTests(p), status |-> "ready"]

\* the prompt parser taken alone: a prompt is given, agent_method is called
InitPrompt ==
    /\ ProxyIdle
    /\ NormIdle
    /\ env = [OPENROUTER_API_KEY |-> JNull, STAGEHAND_MODEL |-> JNull,
              OPENROUTER_MODEL |-> JNull]
    /\ driver = "agent_method"
    /\ dpc = "prompted"
    /\ source = "argument"
    /\ typed = <<>>
    /\ prompt \in Prompts
    /\ agent_response = JNull
    /\ test_scenarios = <<>>
    /\ idx = 0
    /\ results = <<>>
    /\ agent = JNull
    /\ sessions = <<>>
    /\ cycle = JNull
    /\ exit_code = JNull

\* agent_response = await agent.agent_method(prompt)
CallAgentMethod ==
    /\ driver = "agent_method"
    /\ dpc = "prompted"
    /\ agent_response' = AgentMethod(prompt)
    /\ dpc' = "parsed"
    /\ UNCHANGED <<driver, source, typed, prompt, test_scenarios, idx, results,
                   agent, sessions, cycle, exit_code>>
    /\ UNCHANGED proxyVars
    /\ UNCHANGED normVars

NextPrompt == CallAgentMethod

SpecPrompt == InitPrompt /\ [][NextPrompt]_vars

(***************************************************************************)
(* The Stagehand session and the agent state the drivers share.            *)
(***************************************************************************)
\* a Stagehand object just constructed: init() has not run, close() neither
NewSession == [inited |-> FALSE, closed |-> FALSE]

\* HowdyTestAgent(): no session, no page, empty result stores.  stagehand
\* and page hold the number of the session in sessions, 0 for None
NewAgent ==
    [stagehand |-> 0, page |-> 0, execution_results |-> <<>>, screenshots |-> <<>>]

\* how initialize_stagehand can go: Stagehand(...) raises, init() raises,
\* or both succeed
InitOutcomes == {"constructor_raises", "init_raises", "ok"}

\* self after initialize_stagehand: the new object is assigned before
\* init() is awaited, the page only after
AgentAfterInit(a, ss, o) ==
    CASE o = "constructor_raises" -> a
      [] o = "init_raises" -> [a EXCEPT !.stagehand = Len(ss) + 1]
      [] OTHER -> [a EXCEPT !.stagehand = Len(ss) + 1, !.page = Len(ss) + 1]

\* the Stagehand objects in existence after initialize_stagehand
SessionsAfterInit(ss, o) ==
    CASE o = "constructor_raises" -> ss
      [] o = "init_raises" -> Append(ss, NewSession)
      [] OTHER -> Append(ss, [inited |-> TRUE, closed |-> FALSE])

\* close_stagehand: close() is awaited on the object self.stagehand holds,
\* if it holds one; an exception of close() is logged
SessionsAfterClose(a, ss) ==
    IF a.stagehand = 0 THEN ss ELSE [ss EXCEPT ![a.stagehand].closed = TRUE]

(***************************************************************************)
(* frontend/test_agent.py: get_ai_prompt, stagehand_method and             *)
(* run_full_test_cycle.                                                    *)
(***************************************************************************)
DefaultPrompt == <<"Test", "the", "web", "application", "functionality">>

RECURSIVE PromptLStrip(_)
PromptLStrip(p) == IF Len(p) > 0 /\ p[1] = " " THEN PromptLStrip(Tail(p)) ELSE p
RECURSIVE PromptRStrip(_)
PromptRStrip(p) ==
    IF Len(p) > 0 /\ p[Len(p)] = " " THEN PromptRStrip(SubSeq(p, 1, Len(p) - 1))
    ELSE p
\* input(...).strip()
PromptStrip(p) == PromptRStrip(PromptLStrip(p))

\* the value the coroutine get_ai_prompt() finishes with: the line read,
\* stripped, or the default prompt when it is empty or input() raised
GetAiPrompt(src, line) ==
    IF src = "stdin_closed" THEN DefaultPrompt
    ELSE IF PromptStrip(line) = <<>> THEN DefaultPrompt
    ELSE PromptStrip(line)

\* what the call self.get_ai_prompt() returns: the coroutine of the async
\* method, or the str that the lambda put in its place returns
CallGetAiPrompt(src, line) ==
    IF src \in {"stdin", "stdin_closed"}
    THEN [t |-> "coroutine", value |-> [t |-> "str", w |-> GetAiPrompt(src, line)]]
    ELSE [t |-> "str", w |-> line]

\* await v: the result of a coroutine; a str is not awaitable
Await(v) == IF v.t = "coroutine" THEN v.value ELSE Raise("TypeError")

TestResult(test_type, success, message, screenshot_path, error_details) ==
    [test_type |-> test_type, success |-> success, message |-> message,
     screenshot_path |-> screenshot_path, error_details |-> error_details]

\* "error" in scenario.lower() or "fail" in scenario.lower(), for the
\* scenarios of the model
MentionsFailure(scenario) ==
    scenario \in {"Check for any errors",
                  "Check for error messages with invalid credentials"}

\* _simulate_stagehand_test(scenario)
SimulateStagehandTest(scenario) ==
    TestResult("stagehand", ~MentionsFailure(scenario), <<"Executed: ", scenario>>,
               IF MentionsFailure(scenario) THEN JNull ELSE [t |-> "simulated_path"],
               JNull)

\* _fallback_simulation(test_scenarios)
FallbackSimulation(scs) == [i \in 1..Len(scs) |-> SimulateStagehandTest(scs[i])]

\* how one pass of the loop of stagehand_method can go: what agent.execute
\* does, and whether page.screenshot raises
ExecuteOutcomes == {"raises", "dict_success", "dict_failure", "not_a_dict"}
ScreenshotOutcomes == {"saved", "raises"}

\* agent_result.get('success', True) if isinstance(agent_result, dict) else True
SuccessOf(e) == e # "dict_failure"

\* fault: a pass whose execute raised leaves no result
FailedPassDropped(rs, scenario) == rs

\* the except clause of a pass: a failed TestResult is appended
FailedPass(rs, scenario) ==
    Append(rs, TestResult("stagehand_agent", FALSE,
                          <<"Failed to execute: ", scenario>>, JNull,
                          [t |-> "str", s |-> "execute failed"]))

\* results after the pass for scenario number i (from 0)
ResultsAfterPass(rs, i, scenario, e, sh) ==
    IF e = "raises" THEN FailedPass(rs, scenario)
    ELSE Append(rs, TestResult("stagehand_agent", SuccessOf(e),
                               <<"Agent executed: ", scenario>>,
                               IF sh = "saved" THEN [t |-> "path", i |-> i] ELSE JNull,
                               JNull))

\* self after the pass: the execution result is stored once execute has
\* returned, the screenshot path once the screenshot is saved
AgentAfterPass(a, i, scenario, e, sh) ==
    IF e = "raises" THEN a
    ELSE [a EXCEPT !.execution_results = Append(@, [scenario |-> scenario, index |-> i]),
                   !.screenshots = IF sh = "saved" THEN Append(@, [t |-> "path", i |-> i])
                                   ELSE @]

\* sum(1 for r in test_results if r.success), and its complement
CountWhere(rs, b) == Cardinality({i \in 1..Len(rs) : rs[i].success = b})

\* the dict run_full_test_cycle returns when no step raised
CompletedCycle(p, response, rs, a) ==
    [status |-> "completed", prompt |-> p, agent_response |-> response,
     test_results |-> rs,
     collected_data |-> [execution_results_count |-> Len(a.execution_results),
                         screenshots_count |-> Len(a.screenshots)],
     summary |-> [total_tests |-> Len(rs),
                  passed_tests |-> CountWhere(rs, TRUE),
                  failed_tests |-> CountWhere(rs, FALSE)]]

\* the dict run_full_test_cycle returns from its except clause
FailedCycle(exc) == [status |-> "failed", error |-> exc]

(***************************************************************************)
(* The drivers: main of test_agent.py, main of test_basic.py with its      *)
(* TestRunner, and run_test of backend/stagehand_runner.py.                *)
(***************************************************************************)
\* lines typed at the prompt, or given with --prompt
DriverLines == {<<>>, <<" ">>, <<"research">>, <<"MENU", " ">>}

\* the text the lambda of test_full_cycle returns
OverridePrompt == <<"Test", "the", "web", "application", "UI">>

\* the prompt of test_agent_method and the scenarios of
\* test_stagehand_execution
RunnerPrompt ==
    <<"Test", "the", "login", "functionality", "and", "form", "submission">>
RunnerScenarios == <<"Observe the current page", "Check if the page loaded correctly">>

FrontStart ==
    /\ prompt = JNull
    /\ agent_response = JNull
    /\ test_scenarios = <<>>
    /\ idx = 0
    /\ results = <<>>
    /\ agent = NewAgent
    /\ sessions = <<>>
    /\ cycle = JNull
    /\ exit_code = JNull

\* main of test_agent.py after the arguments are parsed: with a --prompt
\* that is not empty get_ai_prompt is replaced by the lambda
InitAgentMain ==
    /\ driver = "agent_main"
    /\ dpc = "initialize"
    /\ \/ source \in {"stdin", "stdin_closed"} /\ typed \in DriverLines
       \/ source = "option" /\ typed \in DriverLines \ {<<>>}

\* main of test_basic.py with a new TestRunner
InitTestRunner ==
    /\ driver = "test_runner"
    /\ dpc = "initialize"
    /\ source = "override"
    /\ typed = OverridePrompt

\* run_test(changelog): USE_AGENT set with a key, set without one, or unset
InitRunTest ==
    /\ driver = "run_test"
    /\ dpc = "rt_config"
    /\ source \in {"agent_mode", "agent_mode_no_key", "basic"}
    /\ typed = <<"changelog">>

InitDriver ==
    /\ ProxyIdle
    /\ NormIdle
    /\ env = [OPENROUTER_API_KEY |-> JNull, STAGEHAND_MODEL |-> JNull,
              OPENROUTER_MODEL |-> JNull]
    /\ FrontStart
    /\ InitAgentMain \/ InitTestRunner \/ InitRunTest

\* where a driver goes on after run_full_test_cycle has returned
AfterCycle == "closing"

\* await agent.initialize_stagehand() in main and in TestRunner.setup
Initialize ==
    /\ driver \in {"agent_main", "test_runner"}
    /\ dpc = "initialize"
    /\ \E o \in InitOutcomes :
          /\ agent' = AgentAfterInit(agent, sessions, o)
          /\ sessions' = SessionsAfterInit(sessions, o)
    /\ dpc' = IF driver = "agent_main" THEN "cycle_prompt" ELSE "tests"
    /\ UNCHANGED <<driver, source, typed, prompt, agent_response, test_scenarios,
                   idx, results, cycle, exit_code>>
    /\ UNCHANGED proxyVars
    /\ UNCHANGED normVars

\* tests 1 to 5 of test_basic.py: agent_method on the fixed prompt; test 6
\* follows when there is a page, the full cycle otherwise
RunnerTests ==
    /\ driver = "test_runner"
    /\ dpc = "tests"
    /\ agent_response' = AgentMethod(RunnerPrompt)
    /\ IF agent.page # 0
       THEN dpc' = "runner_stagehand" /\ test_scenarios' = RunnerScenarios
       ELSE dpc' = "cycle_prompt" /\ UNCHANGED test_scenarios
    /\ UNCHANGED <<driver, source, typed, prompt, idx, results, agent, sessions,
                   cycle, exit_code>>
    /\ UNCHANGED proxyVars
    /\ UNCHANGED normVars

\* step 1 of run_full_test_cycle: prompt = await self.get_ai_prompt(); an
\* exception ends the cycle in its except clause
CycleGetPrompt ==
    /\ driver \in {"agent_main", "test_runner"}
    /\ dpc = "cycle_prompt"
    /\ IF IsRaise(Await(CallGetAiPrompt(source, typed)))
       THEN /\ cycle' = FailedCycle(Await(CallGetAiPrompt(source, typed)).exc)
            /\ dpc' = AfterCycle
            /\ UNCHANGED prompt
       ELSE /\ prompt' = Await(CallGetAiPrompt(source, typed))
            /\ dpc' = "cycle_agent"
            /\ UNCHANGED cycle
    /\ UNCHANGED <<driver, source, typed, agent_response, test_scenarios, idx,
                   results, agent, sessions, exit_code>>
    /\ UNCHANGED proxyVars
    /\ UNCHANGED normVars

\* steps 2 to 4 of run_full_test_cycle: agent_method and the two
\* connection tests, whose exceptions are caught where they are raised
CycleAgentMethod ==
    /\ driver \in {"agent_main", "test_runner"}
    /\ dpc = "cycle_agent"
    /\ agent_response' = AgentMethod(prompt.w)
    /\ test_scenarios' = AgentMethod(prompt.w).test_scenarios
    /\ dpc' = "cycle_stagehand"
    /\ UNCHANGED <<driver, source, typed, prompt, idx, results, agent, sessions,
                   cycle, exit_code>>
    /\ UNCHANGED proxyVars
    /\ UNCHANGED normVars

\* stagehand_method up to its loop: the session is initialized when there
\* is none or no page, and the agent is created; when either fails the
\* simulation gives the results
StagehandBegin(at, loopAt, retAt) ==
    /\ dpc = at
    /\ \E o \in InitOutcomes, created \in BOOLEAN :
          LET needed == agent.stagehand = 0 \/ agent.page = 0
              ready == IF needed THEN o = "ok" ELSE TRUE
          IN /\ agent' = IF needed THEN AgentAfterInit(agent, sessions, o) ELSE agent
             /\ sessions' = IF needed THEN SessionsAfterInit(sessions, o) ELSE sessions
             /\ IF ready /\ created
                THEN /\ results' = <<>>
                     /\ idx' = 0
                     /\ dpc' = loopAt
                ELSE /\ results' = FallbackSimulation(test_scenarios)
                     /\ idx' = 0
                     /\ dpc' = retAt
    /\ UNCHANGED <<driver, source, typed, prompt, agent_response, test_scenarios,
                   cycle, exit_code>>
    /\ UNCHANGED proxyVars
    /\ UNCHANGED normVars

\* one pass of the loop of stagehand_method; after the last one the method
\* returns results
LoopPass(loopAt, retAt) ==
    /\ dpc = loopAt
    /\ idx < Len(test_scenarios)
    /\ \E e \in ExecuteOutcomes, sh \in ScreenshotOutcomes :
          /\ results' = ResultsAfterPass(results, idx, test_scenarios[idx + 1], e, sh)
          /\ agent' = AgentAfterPass(agent, idx, test_scenarios[idx + 1], e, sh)
    /\ idx' = idx + 1
    /\ dpc' = IF idx + 1 = Len(test_scenarios) THEN retAt ELSE loopAt
    /\ UNCHANGED <<driver, source, typed, prompt, agent_response, test_scenarios,
                   sessions, cycle, exit_code>>
    /\ UNCHANGED proxyVars
    /\ UNCHANGED normVars

CycleStagehandBegin ==
    StagehandBegin("cycle_stagehand", "cycle_loop", "cycle_returned")
CycleLoopPass == LoopPass("cycle_loop", "cycle_returned")
RunnerStagehandBegin ==
    StagehandBegin("runner_stagehand", "runner_loop", "runner_returned")
RunnerLoopPass == LoopPass("runner_loop", "runner_returned")

\* test 7 of test_basic.py, after which the full cycle is run
RunnerAnalysis ==
    /\ driver = "test_runner"
    /\ dpc = "runner_returned"
    /\ dpc' = "cycle_prompt"
    /\ UNCHANGED <<driver, source, typed, prompt, agent_response, test_scenarios,
                   idx, results, agent, sessions, cycle, exit_code>>
    /\ UNCHANGED proxyVars
    /\ UNCHANGED normVars

\* steps 6 and 7 of run_full_test_cycle and the final results
CycleFinish ==
    /\ dpc = "cycle_returned"
    /\ cycle' = CompletedCycle(prompt.w, agent_response, results, agent)
    /\ dpc' = AfterCycle
    /\ UNCHANGED <<driver, source, typed, prompt, agent_response, test_scenarios,
                   idx, results, agent, sessions, exit_code>>
    /\ UNCHANGED proxyVars
    /\ UNCHANGED normVars

\* the finally clause of main and TestRunner.teardown: close_stagehand;
\* main ends with 0, test_basic with 0 or 1 after its tests
CloseStagehand ==
    /\ driver \in {"agent_main", "test_runner"}
    /\ dpc = "closing"
    /\ sessions' = SessionsAfterClose(agent, sessions)
    /\ dpc' = "ended"
    /\ \E code \in {0, 1} :
          /\ driver = "agent_main" => code = 0
          /\ exit_code' = JInt(code)
    /\ UNCHANGED <<driver, source, typed, prompt, agent_response, test_scenarios,
                   idx, results, agent, cycle>>
    /\ UNCHANGED proxyVars
    /\ UNCHANGED normVars

\* run_test up to its try: without a key in agent mode it exits before any
\* session exists; else the Stagehand object is constructed
RunTestCreate ==
    /\ driver = "run_test"
    /\ dpc = "rt_config"
    /\ IF source = "agent_mode_no_key"
       THEN /\ exit_code' = JInt(1)
            /\ dpc' = "ended"
            /\ UNCHANGED <<agent, sessions>>
       ELSE /\ sessions' = Append(sessions, NewSession)
            /\ agent' = [agent EXCEPT !.stagehand = Len(sessions) + 1]
            /\ dpc' = "rt_init"
            /\ UNCHANGED exit_code
    /\ UNCHANGED <<driver, source, typed, prompt, agent_response, test_scenarios,
                   idx, results, cycle>>
    /\ UNCHANGED proxyVars
    /\ UNCHANGED normVars

\* the step of the try block of run_test that follows the step at
RunTestAfter(at) ==
    CASE at = "rt_init" -> "rt_goto"
      [] at = "rt_goto" -> "rt_test"
      [] OTHER -> "rt_finally"

\* one step of the try block of run_test: init, goto, then the test; an
\* exception goes through sys.exit(1) of the except clause to the finally
RunTestStep ==
    /\ driver = "run_test"
    /\ dpc \in {"rt_init", "rt_goto", "rt_test"}
    /\ \E ok \in BOOLEAN :
          IF ok
          THEN /\ dpc' = RunTestAfter(dpc)
               /\ sessions' = IF dpc = "rt_init"
                              THEN [sessions EXCEPT ![agent.stagehand].inited = TRUE]
                              ELSE sessions
               /\ agent' = IF dpc = "rt_goto"
                           THEN [agent EXCEPT !.page = agent.stagehand] ELSE agent
               /\ UNCHANGED exit_code
          ELSE /\ dpc' = "rt_finally"
               /\ exit_code' = JInt(1)
               /\ UNCHANGED <<agent, sessions>>
    /\ UNCHANGED <<driver, source, typed, prompt, agent_response, test_scenarios,
                   idx, results, cycle>>
    /\ UNCHANGED proxyVars
    /\ UNCHANGED normVars

\* the finally clause of run_test: await stagehand.close()
RunTestClose ==
    /\ driver = "run_test"
    /\ dpc = "rt_finally"
    /\ sessions' = SessionsAfterClose(agent, sessions)
    /\ exit_code' = IF exit_code = JNull THEN JInt(0) ELSE exit_code
    /\ dpc' = "ended"
    /\ UNCHANGED <<driver, source, typed, prompt, agent_response, test_scenarios,
                   idx, results, agent, cycle>>
    /\ UNCHANGED proxyVars
    /\ UNCHANGED normVars

NextDriver ==
    \/ Initialize
    \/ RunnerTests
    \/ CycleGetPrompt
    \/ CycleAgentMethod
    \/ CycleStagehandBegin
    \/ CycleLoopPass
    \/ RunnerStagehandBegin
    \/ RunnerLoopPass
    \/ RunnerAnalysis
    \/ CycleFinish
    \/ CloseStagehand
    \/ RunTestCreate
    \/ RunTestStep
    \/ RunTestClose

SpecDriver == InitDriver /\ [][NextDriver]_vars

\* a driver runs to its end: every await returns or raises
SpecDriverFair == SpecDriver /\ WF_vars(NextDriver)

(***************************************************************************)
(* Properties.                                                             *)
(***************************************************************************)
ActionFields == {"method", "element", "args", "step", "completed"}

\* r is the serialization of a dict with exactly the five fields
IsActionText(r) ==
    /\ r.t = "text"
    /\ Len(r.x) = 1
    /\ r.x[1].c = "json"
    /\ r.x[1].v.t = "obj"
    /\ DOMAIN r.x[1].v.o = ActionFields

\* the dict serialized in r
RecordIn(r) == r.x[1].v.o

ValidMethodSet ==
    {"click", "fill", "press", "hover", "scrollIntoViewIfNeeded",
     "selectOption", "check", "uncheck", "goto", "waitForTimeout", "type",
     "screenshot", "evaluate"}

PageLevelSet == {"goto", "waitForTimeout", "evaluate", "screenshot"}

\* C1: for every input text _ensure_json_content returns, without raising,
\* the serialization of a record with exactly the five fields.
C1_NeverRaises == npc = "once" => IsActionText(out)

\* a response the caller takes for a success: a chat.completion dict whose
\* choices carry action records, or an HTTP answer with status 200
IsSuccess(r) ==
    \/ /\ r.t = "completion"
       /\ r.object = "chat.completion"
       /\ Len(r.choices) >= 1
       /\ \A i \in 1..Len(r.choices) : IsActionText(r.choices[i].content)
    \/ /\ r.t = "http"
       /\ r.status = 200

\* C2: whatever the upstream call comes to, the request ends with a
\* successful well-formed response, in the client and in the server variant.
C2_AlwaysSuccessful == pc = "done" => IsSuccess(result)

\* r is a response with the one choice {waitForTimeout, null, [1000], false}
\* whose step is "Error: " followed by some text
IsWaitFallback(r) ==
    /\ r.t = "completion"
    /\ Len(r.choices) = 1
    /\ IsActionText(r.choices[1].content)
    /\ RecordIn(r.choices[1].content)["method"] = JStr("waitForTimeout")
    /\ RecordIn(r.choices[1].content)["element"] = JNull
    /\ RecordIn(r.choices[1].content)["args"] = JList(<<JInt(1000)>>)
    /\ RecordIn(r.choices[1].content)["completed"] = JBool(FALSE)
    /\ RecordIn(r.choices[1].content)["step"].t = "text"
    /\ Len(RecordIn(r.choices[1].content)["step"].x) >= 2
    /\ RecordIn(r.choices[1].content)["step"].x[1] = SegProse("Error: ")

\* the text after "Error: " in the step of a fallback response
ErrorTextIn(r) == Tail(RecordIn(r.choices[1].content)["step"].x)

\* the message field of the error object of a JSON error body, if any
MessageOfBody(b) ==
    IF /\ Len(b) = 1
       /\ b[1].c = "json"
       /\ b[1].v.t = "obj"
       /\ "error" \in DOMAIN b[1].v.o
       /\ b[1].v.o["error"].t = "obj"
       /\ "message" \in DOMAIN b[1].v.o["error"].o
    THEN {<<SegProse(b[1].v.o["error"].o["message"].s)>>}
    ELSE {}

\* the texts an upstream failure u can be reported with
ErrorTextsOf(u) ==
    IF u.kind = "status"
    THEN {<<SegProse(u.text)>>, u.body} \cup MessageOfBody(u.body)
    ELSE {<<SegProse(u.text)>>}

UpstreamFailed == upstream.kind \in {"timeout", "connection", "status", "badbody"}

HasTextContents(b) ==
    /\ b.t = "obj"
    /\ "choices" \in DOMAIN b.o
    /\ b.o["choices"].t = "list"
    /\ Len(b.o["choices"].l) >= 1
    /\ \A i \in 1..Len(b.o["choices"].l) :
          /\ b.o["choices"].l[i].t = "obj"
          /\ "message" \in DOMAIN b.o["choices"].l[i].o
          /\ b.o["choices"].l[i].o["message"].t = "obj"
          /\ "content" \in DOMAIN b.o["choices"].l[i].o["message"].o
          /\ b.o["choices"].l[i].o["message"].o["content"].t = "text"

ContentAt(b, i) == b.o["choices"].l[i].o["message"].o["content"]

\* the contents of the choices the caller receives
ReturnedContents(r) ==
    IF r.t = "completion" THEN [i \in 1..Len(r.choices) |-> r.choices[i].content]
    ELSE [i \in 1..Len(r.body.o["choices"].l) |-> ContentAt(r.body, i)]

ContentsAreNormalized(r, b) ==
    /\ Len(ReturnedContents(r)) = Len(b.o["choices"].l)
    /\ \A i \in 1..Len(b.o["choices"].l) :
          ReturnedContents(r)[i] = EnsureJsonContent(ContentAt(b, i))

C5_Idempotent == npc = "twice" => out2 = out

C5_Witness ==
    /\ npc = "twice"
    /\ Len(content) = 0
    /\ RecordIn(out)["method"] = JStr("waitForTimeout")
    /\ RecordIn(out2)["method"] = JStr("click")

\* C6: the method of every record _validate_computer_action returns is in
\* the valid-method set, and so is the method of the default and wrapped
\* records of _ensure_json_content and of the proxy's synthetic records.
C6_MethodAlwaysValid ==
    /\ (npc \in {"once", "twice"} /\ out.t = "text")
       => /\ IsActionText(out)
          /\ RecordIn(out)["method"].t = "str"
          /\ RecordIn(out)["method"].s \in ValidMethodSet
    /\ (npc = "twice" /\ out2.t = "text")
       => /\ IsActionText(out2)
          /\ RecordIn(out2)["method"].t = "str"
          /\ RecordIn(out2)["method"].s \in ValidMethodSet
    /\ NoChoicesRecord.o["method"].s \in ValidMethodSet
    /\ ClientErrorRecord(JStr("Read timed out")).o["method"].s \in ValidMethodSet

C6_Witness ==
    /\ npc = "once"
    /\ content = <<SegJson(JObj([method |-> JStr("fly")]))>>
    /\ out.t = "text"
    /\ RecordIn(out)["method"] = JStr("click")

\* the explicit elements the objects in the text x supply
SuppliedElements(x) ==
    {x[i].v.o["element"] :
        i \in {j \in 1..Len(x) : /\ IsObjSeg(x[j])
                                 /\ "element" \in DOMAIN x[j].v.o
                                 /\ x[j].v.o["element"].t # "null"}}

\* C7: in every record returned, element is null exactly when the method is
\* page-level and the input supplied no explicit element; otherwise it is an
\* integer, the supplied element coerced or 0.
C7_ElementNullIffPageLevel ==
    (npc = "once" /\ out.t = "text") =>
       /\ RecordIn(out)["element"].t = "null"
          <=> /\ RecordIn(out)["method"].s \in PageLevelSet
              /\ SuppliedElements(content) = {}
       /\ RecordIn(out)["element"].t # "null"
          => /\ RecordIn(out)["element"].t = "int"
             /\ \/ RecordIn(out)["element"].n = 0
                \/ \E e \in SuppliedElements(content) :
                      PyInt(e) = RecordIn(out)["element"]

C7_Witness ==
    /\ npc = "once"
    /\ content = <<SegJson(JObj([method |-> JStr("goto")]))>>
    /\ out.t = "text"
    /\ RecordIn(out)["element"] = JNull

\* the alias table as the claim lists it
AliasOf(m) ==
    CASE m \in {"type", "input", "enter", "write"} -> "fill"
      [] m \in {"key", "keypress"} -> "press"
      [] m = "navigate" -> "goto"
      [] m = "scroll" -> "scrollIntoViewIfNeeded"
      [] m = "wait" -> "waitForTimeout"
      [] m \in {"left_click", "right_click"} -> "click"
      [] m = "move" -> "hover"
      [] OTHER -> m

\* the name read from the method field, else from the action field
NameRead(o) ==
    IF "method" \in DOMAIN o /\ Truthy(o["method"]) THEN o["method"]
    ELSE IF "action" \in DOMAIN o THEN o["action"]
    ELSE JStr("click")

\* the method the claim expects for the name v read from the input
ExpectedMethod(v) ==
    IF ~Truthy(v) THEN "click"
    ELSE IF AliasOf(Lower(v.s)) \in ValidMethodSet THEN AliasOf(Lower(v.s))
    ELSE "click"

TypeHello == JObj([action |-> JStr("type"), value |-> JStr("hello")])

TypeHelloRecord ==
    JObj([method |-> JStr("fill"), element |-> JInt(0),
          args |-> JList(<<JStr("hello")>>),
          step |-> JStr("Perform fill action"), completed |-> JBool(FALSE)])

\* C8: the method is read from method, else from action, else click, then
\* lower-cased, mapped through the alias table and replaced by click when it
\* is not a valid method; {"action":"type","value":"hello"} gives
\* {fill, 0, ["hello"], "Perform fill action", false}.
C8_MethodResolution ==
    /\ (/\ npc = "once"
        /\ Len(content) = 1
        /\ IsObjSeg(content[1])
        /\ out.t = "text")
       => RecordIn(out)["method"] = JStr(ExpectedMethod(NameRead(content[1].v.o)))
    /\ (npc = "once" /\ content = <<SegJson(TypeHello)>>)
       => out = JText(<<SegJson(TypeHelloRecord)>>)

C8_Witness ==
    /\ npc = "once"
    /\ content = <<SegJson(TypeHello)>>
    /\ out = JText(<<SegJson(TypeHelloRecord)>>)

\* the objects whose serialization stands in the text x, and the empty
\* object when x holds a pair of braces with nothing but blanks between
ObjectsIn(x) ==
    {x[i].v : i \in {j \in 1..Len(x) : IsObjSeg(x[j])}} \cup
    {EmptyObj : i \in {j \in 1..Len(x) :
        /\ x[j].c = "lbrace"
        /\ \E k \in (j + 1)..Len(x) :
              /\ x[k].c = "rbrace"
              /\ \A m \in (j + 1)..(k - 1) : x[m].c = "ws"}}

\* those of them the validation accepts
UsableObjectsIn(x) == {v \in ObjectsIn(x) : ~IsRaise(ValidateComputerAction(v))}

\* the click record whose step is the text x as it came
WrappedText(x) ==
    JText(<<SegJson(JObj([method |-> JStr("click"), element |-> JInt(0),
                          args |-> JList(<<>>), step |-> JText(x),
                          completed |-> JBool(FALSE)]))>>)

\* the text is not blank and does not parse strictly
StrictParseFails(x) == Len(Strip(x)) > 0 /\ IsRaise(Loads(x))

\* C9 as stated: when the strict parse fails and the text holds a
\* brace-delimited substring that parses as an object, wherever it stands,
\* the validated record of that object is returned; the text is wrapped
\* only when there is none.
C9_EmbeddedObjectIsUsed ==
    (npc = "once" /\ StrictParseFails(content)) =>
       IF UsableObjectsIn(content) # {}
       THEN \E v \in UsableObjectsIn(content) :
               out = JText(<<SegJson(ValidateComputerAction(v))>>)
       ELSE out = WrappedText(content)

\* the stripped text s begins with "{" or "["
BeginsLikeJson(s) ==
    /\ Len(s) > 0
    /\ \/ s[1].c \in {"lbrace", "lbrack"}
       \/ s[1].c = "json" /\ s[1].v.t \in {"obj", "list"}

\* the object that the stretch from the first "{" to the last "}" of the
\* stripped text s parses to, when it does and the validation accepts it
LeadingObject(s) ==
    IF Len(RegexBraces(s)) = 0 THEN {}
    ELSE {v \in {Loads(RegexBraces(s))} :
            ~IsRaise(v) /\ ~IsRaise(ValidateComputerAction(v))}

\* C9 amended: when the strict parse fails, the stripped text begins with
\* "{" or "[", and the stretch from its first "{" to its last "}" parses as
\* an object that validates, the validated record of that object is
\* returned; in every other case of a failed strict parse, prose before the
\* brace included, the raw text is wrapped as the step of a click record.
C9_LeadingObjectIsUsed ==
    (npc = "once" /\ StrictParseFails(content)) =>
       IF BeginsLikeJson(Strip(content)) /\ LeadingObject(Strip(content)) # {}
       THEN \E v \in LeadingObject(Strip(content)) :
               out = JText(<<SegJson(ValidateComputerAction(v))>>)
       ELSE out = WrappedText(content)

C9_Witness ==
    /\ npc = "once"
    /\ content = <<SegJson(JObj([method |-> JStr("hover")])), SegWs,
                   SegProse("Click the blue button")>>
    /\ out = JText(<<SegJson(JObj([method |-> JStr("hover"),
                                   element |-> JInt(0), args |-> JList(<<>>),
                                   step |-> JStr("Perform hover action"),
                                   completed |-> JBool(FALSE)]))>>)

\* C10: a text that is not JSON and holds no parseable brace-delimited
\* object comes back as {click, 0, [], step, false} with the text itself,
\* blanks at its ends included, as the step.
C10_ProseIsWrapped ==
    (npc = "once" /\ StrictParseFails(content) /\ ObjectsIn(content) = {})
    => out = WrappedText(content)

C10_Witness ==
    /\ npc = "once"
    /\ content = <<SegWs, SegProse("Click the blue button"), SegWs>>
    /\ out = WrappedText(content)

\* the upstream content of choice i is null, the empty str or blanks only
IsBlankChoice(b, i) ==
    /\ b.o["choices"].l[i].t = "obj"
    /\ "message" \in DOMAIN b.o["choices"].l[i].o
    /\ b.o["choices"].l[i].o["message"].t = "obj"
    /\ "content" \in DOMAIN b.o["choices"].l[i].o["message"].o
    /\ \/ ContentAt(b, i).t = "null"
       \/ ContentAt(b, i).t = "text" /\ Len(Strip(ContentAt(b, i).x)) = 0

\* r is the serialized record {waitForTimeout, null, [1000], false} with a
\* step that is a non-empty str
IsDefaultWait(r) ==
    /\ IsActionText(r)
    /\ RecordIn(r)["method"] = JStr("waitForTimeout")
    /\ RecordIn(r)["element"] = JNull
    /\ RecordIn(r)["args"] = JList(<<JInt(1000)>>)
    /\ RecordIn(r)["completed"] = JBool(FALSE)
    /\ RecordIn(r)["step"].t = "str"
    /\ RecordIn(r)["step"].s # ""

\* a successful upstream body with at least one choice
HasChoices(b) ==
    /\ b.t = "obj"
    /\ "choices" \in DOMAIN b.o
    /\ b.o["choices"].t = "list"
    /\ Len(b.o["choices"].l) >= 1

\* C11: a choice whose upstream content is the empty str, blanks only, or
\* null comes back from the client with the default wait record
\* {waitForTimeout, null, [1000], false} and a non-empty step as content.
C11_EmptyGivesDefaultWait ==
    (/\ pc = "done"
     /\ variant = "client"
     /\ upstream.kind = "ok"
     /\ HasChoices(upstream.body)
     /\ result.t = "completion")
    => /\ Len(result.choices) = Len(upstream.body.o["choices"].l)
       /\ \A i \in 1..Len(result.choices) :
             IsBlankChoice(upstream.body, i)
             => IsDefaultWait(result.choices[i].content)

C11_Witness ==
    /\ pc = "done"
    /\ variant = "client"
    /\ upstream.kind = "ok"
    /\ HasChoices(upstream.body)
    /\ result.t = "completion"
    /\ Len(result.choices) = 2
    /\ Len(upstream.body.o["choices"].l) = 2
    /\ IsBlankChoice(upstream.body, 1)
    /\ IsBlankChoice(upstream.body, 2)
    /\ ContentAt(upstream.body, 1) = JNull
    /\ ContentAt(upstream.body, 2) = JText(<<SegWs>>)
    /\ IsDefaultWait(result.choices[1].content)
    /\ IsDefaultWait(result.choices[2].content)

\* the one object the text x is the serialization of
IsOneObject(x) == Len(x) = 1 /\ IsObjSeg(x[1])

\* the value of field k of the object o, null when absent
FieldOf(o, k) == IF k \in DOMAIN o THEN o[k] ELSE JNull

\* the value of field k of the nested arguments object of o, null when absent
NestedOf(o, k) ==
    IF "arguments" \in DOMAIN o /\ o["arguments"].t = "obj"
    THEN FieldOf(o["arguments"].o, k) ELSE JNull

\* the first value of the sequence vs that is neither null nor empty, else d
RECURSIVE FirstGiven(_, _)
FirstGiven(vs, d) ==
    IF Len(vs) = 0 THEN d
    ELSE IF Truthy(vs[1]) THEN vs[1] ELSE FirstGiven(Tail(vs), d)

\* the argument the claim names for the methods fill, press and goto
ClaimedArg(o, m) ==
    CASE m = "fill" ->
            FirstGiven(<<FieldOf(o, "text"), FieldOf(o, "value"),
                         NestedOf(o, "text"), NestedOf(o, "value")>>, JStr(""))
      [] m = "press" ->
            FirstGiven(<<FieldOf(o, "key"), NestedOf(o, "key")>>, JStr("Enter"))
      [] m = "goto" ->
            FirstGiven(<<FieldOf(o, "url"), NestedOf(o, "url")>>, JStr(""))

\* the argument the code builds for fill, press and goto when the input
\* has no args list
FieldArg(o, m) ==
    CASE m = "fill" ->
            FirstGiven(<<FieldOf(o, "text"), FieldOf(o, "value"),
                         NestedOf(o, "text")>>, JStr(""))
      [] m = "press" ->
            FirstGiven(<<FieldOf(o, "key"), NestedOf(o, "key")>>, JStr("Enter"))
      [] m = "goto" ->
            FirstGiven(<<FieldOf(o, "url"), NestedOf(o, "url"),
                         FieldOf(o, "selector")>>, JStr(""))

HasArgsList(o) == "args" \in DOMAIN o /\ o["args"].t = "list"

\* the input's args list as it is, [] when there is none
VerbatimArgs(o) == IF HasArgsList(o) THEN o["args"] ELSE JList(<<>>)

\* C16 as stated: for fill, press and goto the args of the record is the
\* one-element list of the method's expected field, else of the same field
\* of the nested arguments object, else of the default; for the other
\* methods but waitForTimeout and selectOption it is the input's args list
\* or []; it is always a list.
C16_ArgsFromExpectedField ==
    (npc = "once" /\ IsOneObject(content) /\ out.t = "text") =>
       /\ RecordIn(out)["args"].t = "list"
       /\ RecordIn(out)["method"].s \in {"fill", "press", "goto"}
          => RecordIn(out)["args"] =
                JList(<<ClaimedArg(content[1].v.o, RecordIn(out)["method"].s)>>)
       /\ RecordIn(out)["method"].s \notin
             {"fill", "press", "goto", "waitForTimeout", "selectOption"}
          => RecordIn(out)["args"] = VerbatimArgs(content[1].v.o)

\* C16 amended: whenever a record is returned for an object resolving to
\* fill, press or goto, args is a one-element list: the first element of
\* the input's args list when the input has one; otherwise the first
\* non-empty of text, value, arguments.text (fill), of key, arguments.key
\* (press), of url, arguments.url, selector (goto), else "" for fill and
\* goto and "Enter" for press.  For the methods other than waitForTimeout
\* and selectOption args is the input's args list as it is, or [].  It is
\* always a list.
C16_ArgsFromListThenFields ==
    (npc = "once" /\ IsOneObject(content) /\ out.t = "text") =>
       /\ RecordIn(out)["args"].t = "list"
       /\ RecordIn(out)["method"].s \in {"fill", "press", "goto"}
          => RecordIn(out)["args"] =
                IF HasArgsList(content[1].v.o)
                THEN JList(<<content[1].v.o["args"].l[1]>>)
                ELSE JList(<<FieldArg(content[1].v.o, RecordIn(out)["method"].s)>>)
       /\ RecordIn(out)["method"].s \notin
             {"fill", "press", "goto", "waitForTimeout", "selectOption"}
          => RecordIn(out)["args"] = VerbatimArgs(content[1].v.o)

C16_Witness ==
    /\ npc = "once"
    /\ content = <<SegJson(JObj([method |-> JStr("fill"),
                                 args |-> JList(<<JStr("hello")>>),
                                 text |-> JStr(""),
                                 arguments |-> RichArguments]))>>
    /\ out.t = "text"
    /\ RecordIn(out)["args"] = JList(<<JStr("hello")>>)

\* the durations the object o supplies, in the order the code reads them:
\* the first element of an args list, the duration field, arguments.duration
SuppliedDurations(o) ==
    IF HasArgsList(o) THEN <<o["args"].l[1]>>
    ELSE SelectSeq(<<FieldOf(o, "duration"), NestedOf(o, "duration")>>,
                   LAMBDA v : v.t # "null")

\* the integer the claim gives for the durations ds: the first one coerced,
\* 1000 when there is none or int() refuses it
ClaimedDuration(ds) ==
    IF Len(ds) = 0 THEN JInt(1000)
    ELSE IF IsRaise(PyInt(ds[1])) THEN JInt(1000) ELSE PyInt(ds[1])

\* C17: the args of every waitForTimeout record returned is a one-element
\* list holding an integer, the supplied duration coerced to an integer, or
\* 1000 when none is supplied or the supplied one cannot be coerced.
C17_WaitArgsInteger ==
    (/\ npc = "once"
     /\ out.t = "text"
     /\ RecordIn(out)["method"] = JStr("waitForTimeout"))
    => /\ RecordIn(out)["args"].t = "list"
       /\ Len(RecordIn(out)["args"].l) = 1
       /\ RecordIn(out)["args"].l[1].t = "int"
       /\ IsOneObject(content)
          => RecordIn(out)["args"].l[1] =
                ClaimedDuration(SuppliedDurations(content[1].v.o))

\* the selectOption names an input can ask for
AsksSelectOption(o) ==
    /\ "method" \in DOMAIN o
    /\ o["method"] = JStr("selectOption")

\* C18: an object whose method is selectOption comes back as a selectOption
\* record with args [value], the value read from the value field, else from
\* arguments.value, else "".
C18_SelectOptionArgs ==
    (/\ npc = "once"
     /\ IsOneObject(content)
     /\ AsksSelectOption(content[1].v.o)
     /\ out.t = "text")
    => /\ RecordIn(out)["method"] = JStr("selectOption")
       /\ RecordIn(out)["args"] =
             JList(<<FirstGiven(<<FieldOf(content[1].v.o, "value"),
                                  NestedOf(content[1].v.o, "value")>>,
                                JStr(""))>>)

\* the step the claim gives for the object o and the resolved method m
ClaimedStep(o, m) ==
    FirstGiven(<<FieldOf(o, "step"), FieldOf(o, "description"),
                 FieldOf(o, "reasoning"), FieldOf(o, "message")>>,
               JStr("Perform " \o m \o " action"))

\* C19: the step of every record returned is not empty; for an object it is
\* the first non-empty of step, description, reasoning, message, else
\* "Perform <method> action" with the resolved method; for the default and
\* the wrapped record it is a non-empty text.
C19_StepNeverEmpty ==
    (npc = "once" /\ out.t = "text") =>
       /\ Truthy(RecordIn(out)["step"])
       /\ IsOneObject(content)
          => RecordIn(out)["step"] =
                ClaimedStep(content[1].v.o, RecordIn(out)["method"].s)
       /\ ObjectsIn(content) = {}
          => /\ RecordIn(out)["step"].t \in {"str", "text"}
             /\ RecordIn(out)["step"] \notin {JStr(""), JText(<<>>)}

C19_Witness ==
    /\ npc = "once"
    /\ content = <<SegJson(JObj([step |-> JStr(""), description |-> JStr(""),
                                 reasoning |-> JStr("a reasoning"),
                                 message |-> JStr("a message")]))>>
    /\ out.t = "text"
    /\ RecordIn(out)["step"] = JStr("a reasoning")

\* the strings that stand for true in the completed field
TrueMarkers == {"true", "yes", "1", "completed"}

\* C20: completed is always a boolean: false when the input has no
\* completed field, for a string true exactly when its lower-cased form is
\* one of true, yes, 1, completed, and a boolean is kept.
C20_CompletedBoolean ==
    (npc = "once" /\ out.t = "text") =>
       /\ RecordIn(out)["completed"].t = "bool"
       /\ (IsOneObject(content) /\ "completed" \notin DOMAIN content[1].v.o)
          => RecordIn(out)["completed"] = JBool(FALSE)
       /\ (/\ IsOneObject(content)
           /\ "completed" \in DOMAIN content[1].v.o
           /\ content[1].v.o["completed"].t = "str")
          => RecordIn(out)["completed"] =
                JBool(Lower(content[1].v.o["completed"].s) \in TrueMarkers)
       /\ (/\ IsOneObject(content)
           /\ "completed" \in DOMAIN content[1].v.o
           /\ content[1].v.o["completed"].t = "bool")
          => RecordIn(out)["completed"] = content[1].v.o["completed"]

C20_Witness ==
    /\ npc = "once"
    /\ content = <<SegJson(JObj([completed |-> JStr("Yes")]))>>
    /\ out.t = "text"
    /\ RecordIn(out)["completed"] = JBool(TRUE)

\* a call has been sent upstream for the client's current request
ClientHasSent == variant = "client" /\ Len(sent) >= 1

\* the message list of the first call sent
SentMessages == sent[1].payload.o["messages"].l

\* the positions of the system messages of the list ms
SystemPositions(ms) ==
    {i \in 1..Len(ms) : "role" \in DOMAIN ms[i].o /\ ms[i].o["role"] = JStr("system")}

\* the message m with the instruction and a blank line before its content
WithInstruction(m) ==
    JObj([m.o EXCEPT !["content"] =
             JText(<<SegProse("json_instruction"), SegBlankLine>> \o @.x)])

InstructionMessage ==
    JObj([role |-> JStr("system"),
          content |-> JText(<<SegProse("json_instruction")>>)])

\* C12: the message list the client sends upstream carries the schema
\* instruction in a system message: with no system message among the
\* caller's, a system message holding exactly the instruction stands first
\* and the caller's messages follow in order; with one, the instruction and
\* a blank line stand before the content of the first system message only,
\* and the number and order of the messages are the caller's.
C12_InstructionInjected ==
    ClientHasSent =>
       IF SystemPositions(request.messages) = {}
       THEN SentMessages = <<InstructionMessage>> \o request.messages
       ELSE /\ Len(SentMessages) = Len(request.messages)
            /\ \A i \in 1..Len(SentMessages) :
                  SentMessages[i] =
                     IF i = SetMin(SystemPositions(request.messages))
                     THEN WithInstruction(request.messages[i])
                     ELSE request.messages[i]

C12_Witness ==
    /\ ClientHasSent
    /\ request.messages =
          <<ChatMessage("user", "Hello"), ChatMessage("system", "You are helpful"),
            ChatMessage("assistant", "Hi"), ChatMessage("system", "Be brief")>>
    /\ SentMessages[2].o["content"] =
          JText(<<SegProse("json_instruction"), SegBlankLine,
                  SegProse("You are helpful")>>)
    /\ SentMessages[4] = ChatMessage("system", "Be brief")

\* C13: the payload the client sends has response_format {type:
\* json_object} when the caller passed no response_format argument; when
\* the caller passed one, the forced format is not applied: a value that is
\* not null is forwarded as it is, and null leaves the payload without it.
C13_ForcedJsonFormat ==
    ClientHasSent =>
       IF "response_format" \notin DOMAIN request.kwargs
       THEN /\ "response_format" \in DOMAIN sent[1].payload.o
            /\ sent[1].payload.o["response_format"] =
                  JObj([type |-> JStr("json_object")])
       ELSE IF request.kwargs["response_format"].t = "null"
       THEN "response_format" \notin DOMAIN sent[1].payload.o
       ELSE /\ "response_format" \in DOMAIN sent[1].payload.o
            /\ sent[1].payload.o["response_format"] =
                  request.kwargs["response_format"]

C13_Witness ==
    /\ ClientHasSent
    /\ "response_format" \in DOMAIN request.kwargs
    /\ request.kwargs["response_format"] = JObj([type |-> JStr("text")])
    /\ sent[1].payload.o["response_format"] = JObj([type |-> JStr("text")])

\* the upstream call of the current request has come to an outcome
UpstreamAnswered ==
    upstream # JNull
    /\ upstream.kind \in {"ok", "timeout", "connection", "status", "badbody"}

\* C14: one request makes one upstream call: in either proxy, whether the
\* call succeeds, times out, cannot connect or gets a non-2xx status, the
\* response goes back to the caller with no second call made.
C14_SingleAttempt ==
    /\ Len(sent) <= 1
    /\ pc \in {"waiting", "answered"} => Len(sent) = 1
    /\ (pc = "done" /\ UpstreamAnswered) => Len(sent) = 1

C14_Witness ==
    /\ pc = "done"
    /\ variant = "server"
    /\ UpstreamAnswered
    /\ upstream.kind = "timeout"
    /\ Len(sent) = 1

\* the environment variable v is set to a non-empty value
IsSet(v) == v.t = "str" /\ v.s # ""

\* C15: without OPENROUTER_API_KEY the construction of the client fails
\* with a ValueError, and so does the start of the server, which also needs
\* STAGEHAND_MODEL; then no request is handled, and every call sent
\* upstream carries the API key.
C15_MissingCredentialIsFatal ==
    /\ client.st # "absent"
       => IF IsSet(env["OPENROUTER_API_KEY"]) THEN client.st = "ready"
          ELSE client.st = "failed" /\ client.exc = "ValueError"
    /\ server.st # "absent"
       => IF IsSet(env["OPENROUTER_API_KEY"]) /\ IsSet(env["STAGEHAND_MODEL"])
          THEN server.st = "ready"
          ELSE server.st = "failed" /\ server.exc = "ValueError"
    /\ ~IsSet(env["OPENROUTER_API_KEY"])
       => pc = "idle" /\ served = 0 /\ Len(sent) = 0
    /\ variant = "client" => client.st = "ready"
    /\ variant = "server" => server.st = "ready"
    /\ \A i \in 1..Len(sent) :
          IsSet(sent[i].bearer) /\ sent[i].bearer = env["OPENROUTER_API_KEY"]

C15_Witness ==
    /\ env["OPENROUTER_API_KEY"] = JNull
    /\ client.st = "failed"
    /\ server.st = "failed"
    /\ served = 0

\* the number of choices a response handed to the caller carries
ChoiceCount(r) ==
    IF r.t = "completion" THEN Len(r.choices) ELSE Len(r.body.o["choices"].l)

\* a response that carries a list of choices
CarriesChoices(r) ==
    \/ r.t = "completion"
    \/ /\ r.t = "http"
       /\ r.status = 200
       /\ r.body.t = "obj"
       /\ "choices" \in DOMAIN r.body.o
       /\ r.body.o["choices"].t = "list"

\* the upstream answered with JSON that is an object
UpstreamGaveObject ==
    upstream # JNull /\ upstream.kind = "ok" /\ upstream.body.t = "obj"

\* the number of choices the upstream body carries, 0 without a choices list
UpstreamChoiceCount ==
    IF "choices" \in DOMAIN upstream.body.o /\ upstream.body.o["choices"].t = "list"
    THEN Len(upstream.body.o["choices"].l) ELSE 0

\* C21 as stated: a response returned for a request carries exactly one
\* choice, however many the upstream response carried.
C21_ExactlyOneChoice ==
    (pc = "done" /\ variant \in {"client", "server"} /\ CarriesChoices(result))
    => ChoiceCount(result) = 1

\* C21 amended: the client returns one choice for each choice the upstream
\* response carried, and one default choice when it carried none; the
\* server returns the upstream choices as they came.
C21_ChoiceCountFollowsUpstream ==
    (pc = "done" /\ UpstreamGaveObject /\ CarriesChoices(result)) =>
       /\ variant = "client"
          => ChoiceCount(result) =
                IF UpstreamChoiceCount = 0 THEN 1 ELSE UpstreamChoiceCount
       /\ variant = "server" => ChoiceCount(result) = UpstreamChoiceCount

C21_Witness ==
    /\ pc = "done"
    /\ variant = "client"
    /\ UpstreamGaveObject
    /\ UpstreamChoiceCount = 2
    /\ result.t = "completion"
    /\ Len(result.choices) = 2

\* test_connection has returned
Probed == pc = "done" /\ variant = "probe"

\* the upstream call succeeded: a 2xx answer whose body is a JSON object
\* without an error entry
UpstreamSucceeded ==
    /\ upstream.kind = "ok"
    /\ upstream.body.t = "obj"
    /\ "error" \notin DOMAIN upstream.body.o

\* C22: test_connection returns True if and only if the upstream call
\* succeeded; it returns False when the upstream is unreachable, times out
\* or answers with an error status.
C22_TrueIffUpstreamSucceeded ==
    Probed => (result = JBool(TRUE) <=> UpstreamSucceeded)

\* C22, the second half alone: an unreachable upstream, a timeout and an
\* error status give False
C22_FailureGivesFalse ==
    (Probed /\ upstream.kind \in {"timeout", "connection", "status"})
    => result = JBool(FALSE)

\* the server has answered a GET to path
AnsweredGet(path) ==
    pc = "done" /\ variant = "route" /\ request.path = path

\* C23: the server answers both GET / and GET /v1 with a static liveness
\* payload and a success status, whatever the upstream does and whatever
\* requests came before.
C23_HealthEndpoints ==
    (AnsweredGet("/") \/ AnsweredGet("/v1")) => result.status = 200

\* C23 for the root path alone: GET / is answered 200 with the same payload
\* whatever came before
C23_RootIsStatic ==
    AnsweredGet("/") =>
        result = HttpResponse(200, JObj([message |-> JStr("LLM Backend is running")]))

\* the places <<message, segment>> of the list ms where the schema
\* instruction stands
InstructionSpots(ms) ==
    UNION {{<<i, j>> : j \in {k \in 1..Len(ms[i].o["content"].x) :
                                ms[i].o["content"].x[k] = SegProse("json_instruction")}} :
           i \in {n \in 1..Len(ms) : /\ "content" \in DOMAIN ms[n].o
                                     /\ ms[n].o["content"].t = "text"}}

\* C25: _inject_json_instruction leaves the caller's list and its messages
\* as they were: after any sequence of calls with the same list every
\* caller message has its original content, and every payload sent carries
\* the schema instruction exactly once.
C25_CallerListUntouched ==
    ClientHasSent =>
       /\ callerMessages = request.messages
       /\ Cardinality(InstructionSpots(SentMessages)) = 1

\* C25, the consequence alone: every payload sent carries the instruction
\* exactly once
C25_InstructionExactlyOnce ==
    ClientHasSent => Cardinality(InstructionSpots(SentMessages)) = 1

\* C25 for lists without a system message: the caller's list is as it was
\* and the payload carries the instruction once
C25_UntouchedWithoutSystem ==
    (ClientHasSent /\ SystemPositions(request.messages) = {}) =>
       /\ callerMessages = request.messages
       /\ Cardinality(InstructionSpots(SentMessages)) = 1

\* the method names the injected instruction lists under VALID PLAYWRIGHT
\* METHODS
InstructedMethods ==
    {"click", "fill", "press", "hover", "scrollIntoViewIfNeeded",
     "selectOption", "check", "uncheck", "goto", "waitForTimeout"}

\* the input is one JSON object whose method field is an instructed name
GivesInstructedMethod ==
    /\ Len(content) = 1
    /\ IsObjSeg(content[1])
    /\ "method" \in DOMAIN content[1].v.o
    /\ content[1].v.o["method"].t = "str"
    /\ content[1].v.o["method"].s \in InstructedMethods

\* C26: every method name the injected instruction lists, given exactly as
\* listed in the method field of a JSON object, is the method of the record
\* the normalizer returns.
C26_InstructedMethodsKept ==
    (npc = "once" /\ GivesInstructedMethod /\ out.t = "text")
    => RecordIn(out)["method"] = content[1].v.o["method"]

\* C26 for the instructed names written in lower case only: these are kept
C26_LowerCaseMethodsKept ==
    (/\ npc = "once"
     /\ GivesInstructedMethod
     /\ content[1].v.o["method"].s = Lower(content[1].v.o["method"].s)
     /\ out.t = "text")
    => RecordIn(out)["method"] = content[1].v.o["method"]

\* the server has sent a call upstream for its current request
ServerHasSent == variant = "server" /\ Len(sent) >= 1

\* the payload of the first call sent
SentPayload == sent[1].payload.o

\* the value the request gives for an optional field
RequestValue(k) ==
    CASE k = "temperature" -> request.temperature
      [] k = "max_tokens" -> request.max_tokens
      [] OTHER -> Get(request.kwargs, k)

OptionalFields ==
    {"temperature", "max_tokens", "response_format", "tools", "tool_choice"}

\* C27: the server forwards the environment's model when one is configured
\* and the request's model otherwise; the messages in order with role and
\* content unchanged; and each of temperature, max_tokens, response_format,
\* tools and tool_choice exactly when the request's value is not null.
C27_ServerForwarding ==
    ServerHasSent =>
       /\ SentPayload["model"] =
             IF Truthy(env["STAGEHAND_MODEL"]) THEN env["STAGEHAND_MODEL"]
             ELSE request.model
       /\ SentPayload["messages"] = JList(request.messages)
       /\ \A k \in OptionalFields :
             k \in DOMAIN SentPayload <=> RequestValue(k).t # "null"
       /\ \A k \in OptionalFields \ {"tools"} :
             k \in DOMAIN SentPayload => SentPayload[k] = RequestValue(k)
       /\ DOMAIN SentPayload \subseteq {"model", "messages"} \cup OptionalFields

C27_Witness ==
    /\ ServerHasSent
    /\ request.temperature = JNull
    /\ "temperature" \notin DOMAIN SentPayload
    /\ "tools" \in DOMAIN SentPayload
    /\ Len(SentPayload["tools"].l) = 2
    /\ SentPayload["tool_choice"] = JStr("auto")
    /\ "max_tokens" \notin DOMAIN SentPayload
    /\ SentPayload["model"] = env["STAGEHAND_MODEL"]
    /\ SentPayload["model"] # request.model

\* agent_method has returned for the prompt
Parsed == driver = "agent_method" /\ dpc = "parsed"

\* the words of the prompt in which a keyword occurs, whatever the case
KeywordWordsOf(p) ==
    {i \in 1..Len(p) :
        p[i] \in {"Login", "authentication", "platform", "Submit", "navigation",
                  "MENU", "research"}}

\* C24: for every prompt, empty, without keyword or with any combination
\* of the login, form, navigation and search keywords, agent_method returns
\* a response whose test_scenarios list is not empty; when no keyword
\* matches it is the four default scenarios.
C24_ScenariosNeverEmpty ==
    Parsed =>
       /\ Len(agent_response.test_scenarios) > 0
       /\ agent_response.prompt = prompt
       /\ KeywordWordsOf(prompt) = {}
          => agent_response.test_scenarios =
                <<"Navigate to the homepage", "Verify page loads correctly",
                  "Test basic functionality", "Check for any errors">>
       /\ KeywordWordsOf(prompt) # {}
          => agent_response.test_scenarios[1] \notin
                {"Navigate to the homepage", "Verify page loads correctly",
                 "Test basic functionality", "Check for any errors"}

C24_Witness ==
    /\ Parsed
    /\ prompt = <<"Test", " ">>
    /\ Len(agent_response.test_scenarios) = 4
    /\ agent_response.test_scenarios[4] = "Check for any errors"

\* the combination case of C24 is reached too: all four keyword groups at
\* once need four words, three groups fit the prompts of the model
C24_CombinationReached ==
    /\ Parsed
    /\ prompt = <<"Login", "platform", "research">>
    /\ Len(agent_response.test_scenarios) = 11

\* stagehand_method has returned results for test_scenarios
StagehandReturned == dpc \in {"cycle_returned", "runner_returned"}

\* run_full_test_cycle has returned its final results
CycleCompleted == cycle # JNull /\ cycle.status = "completed"

\* C28: stagehand_method returns one TestResult for each scenario, in the
\* order of the scenarios, whether execute succeeds or fails in a pass,
\* the initialization fails or the agent cannot be created; so in
\* run_full_test_cycle passed_tests + failed_tests = total_tests = the
\* number of scenarios, and the screenshots recorded are never more than
\* the execution results recorded.
C28_OneResultPerScenario ==
    /\ StagehandReturned =>
          /\ Len(results) = Len(test_scenarios)
          /\ \A i \in 1..Len(results) : results[i].message[2] = test_scenarios[i]
    /\ CycleCompleted =>
          /\ cycle.summary.passed_tests + cycle.summary.failed_tests
                = cycle.summary.total_tests
          /\ cycle.summary.total_tests = Len(cycle.agent_response.test_scenarios)
          /\ Len(cycle.test_results) = cycle.summary.total_tests
    /\ driver \in {"agent_main", "test_runner"} =>
          Len(agent.screenshots) <= Len(agent.execution_results)

C28_Witness ==
    /\ CycleCompleted
    /\ cycle.summary.total_tests = 3
    /\ cycle.summary.failed_tests = 2
    /\ cycle.test_results[1].error_details # JNull
    /\ cycle.test_results[2].success = FALSE
    /\ cycle.test_results[2].error_details = JNull
    /\ Len(agent.execution_results) = 2
    /\ Len(agent.screenshots) = 1

\* the simulation path of C28 is reached as well: no session could be
\* initialized and every scenario has a simulated result
C28_FallbackReached ==
    /\ dpc = "cycle_returned"
    /\ agent.page = 0
    /\ Len(results) = 4
    /\ results[1].test_type = "stagehand"
    /\ results[4].success = FALSE

\* the driver has ended and its prompt was supplied directly
EndedWithDirectPrompt == dpc = "ended" /\ source \in {"option", "override"}

\* C29: with the prompt supplied directly (--prompt of main, or the
\* override of get_ai_prompt in the test) run_full_test_cycle uses that
\* text as the prompt and completes the cycle: its result has a summary
\* for the scenarios of that prompt and not the status "failed".
C29_DirectPromptCompletes ==
    EndedWithDirectPrompt =>
       /\ cycle.status = "completed"
       /\ cycle.prompt = typed
       /\ cycle.summary.total_tests = Len(ParsePromptToTests(typed))

\* C29 for the prompt read from stdin: the cycle completes with the line
\* typed, or with the default prompt for an empty line or a closed stdin
C29_TypedPromptCompletes ==
    (dpc = "ended" /\ source \in {"stdin", "stdin_closed"}) =>
       /\ cycle.status = "completed"
       /\ cycle.prompt = GetAiPrompt(source, typed)

\* the Stagehand object number n has been constructed
SessionCreated(n) == Len(sessions) >= n

\* close() has been awaited on the Stagehand object number n
SessionClosed(n) == Len(sessions) >= n /\ sessions[n].closed

\* C30: in every run of a driver a Stagehand session object, once created,
\* is eventually closed before the driver ends: on the success path, on an
\* exception during navigation or execution, and on initialization failure.
C30_SessionEventuallyClosed ==
    \A n \in 1..2 : SessionCreated(n) ~> SessionClosed(n)

\* C30 at the end of a driver: no session object is left open
C30_NoSessionLeftOpen ==
    dpc = "ended" => \A n \in 1..Len(sessions) : sessions[n].closed

\* C30 for run_test and the TestRunner, which construct one session object
\* at most: it is closed when the driver has ended
C30_SingleSessionClosed ==
    (dpc = "ended" /\ driver \in {"run_test", "test_runner"}) =>
       /\ Len(sessions) <= 1
       /\ \A n \in 1..Len(sessions) : sessions[n].closed

====
